---------------------------- MODULE Spec2Model ----------------------------
(***************************************************************************)
(* A model of draugr (a MUD / telnet client).  The components are modelled *)
(* one by one from their sources, each with its own specification:        *)
(*   SpecRing    src/src/ring.rs    RingBuffer                             *)
(*   SpecScript  src/src/script.rs  the automation (script engine) actor   *)
(*   SpecRouter  src/src/main.rs    the event router (App)                 *)
(*   SpecTelnet  src/src/telnet.rs  the connection actor                   *)
(* All specifications share one Init; the actions of one component leave   *)
(* the variables of the others unchanged.                                  *)
(***************************************************************************)
EXTENDS Integers, Sequences, FiniteSets, TLC

VARIABLES
    \* ---- ring.rs: one RingBuffer and the record of the last call ----
    rb,         \* [buffer, front, back]: the struct RingBuffer
    rb_pre,     \* the buffer as it was before the last call
    rb_op,      \* the last call: [name, arg]
    pushed,     \* the values pushed so far, while only push_back was called
    onlyPush,   \* TRUE until the first find_and_push_back
    \* ---- script.rs: the automation actor and the script threads ----
    sc_state,   \* the actor task: "running", "stopped" or "panicked"
    sc_req_rx,  \* the queue of ScriptEngineRequest (req_tx -> req_rx)
    sc_i_rx,    \* the queue of ScriptEvent::Expect (i_tx -> i_rx)
    sc_ev_rx,   \* the queue of ScriptEngineEvent (ev_tx -> ev_rx)
    expects,    \* ScriptEngine.expects: the pending (pattern, tx) pairs
    th,         \* the script threads and the oneshot channel of each
    sc_last,    \* the request the actor has just handled, and the state before
    \* ---- telnet.rs: the connection actor ----
    t_state,    \* the actor thread: "running", "stopped" or "failed"
    t_pc,       \* the next step of its loop: "recv" or "request"
    t_sock,     \* TelnetConnection.telnet: "none" or "open"
    t_req_rx,   \* the queue of TelnetRequest (req_tx -> req_rx)
    t_ev_rx,    \* the queue of TelnetEvent (ev_tx -> ev_rx)
    t_ops,      \* what the running handler has still to do, in order
    t_last,     \* the step the actor has just made
    \* ---- tui/mod.rs: the presentation task, as the router sees it ----
    tui_state,  \* "running" or "closed" (the task ended)
    tui_req_rx, \* the queue of TuiRequest (req_tx -> req_rx)
    tui_layout, \* TuiWrapper.layout
    \* ---- script.rs: the set_layout capability of a script ----
    lay_call,   \* the last call of set_layout: its argument and its result
    \* ---- main.rs: the router task ----
    r_pc,       \* "idle" (in select!), "sending", "done" or "failed"
    r_cur,      \* the event being handled
    r_out,      \* the sends the handler has still to make, in order
    r_ret,      \* what the handler returns after them (TRUE: break)
    r_sent,     \* the sends the handler has made
    r_count,    \* the events routed so far
    \* ---- history of the channels between the router and the actors ----
    ord,        \* the messages sent and received so far, in order
    \* ---- input.rs: the line editor ----
    in_state,   \* InputLine.state
    history,    \* InputLine.history
    in_op       \* the operation called last, the editor before it, its result

ringVars == <<rb, rb_pre, rb_op, pushed, onlyPush>>
scriptVars == <<sc_state, sc_req_rx, sc_i_rx, sc_ev_rx, expects, th, sc_last>>
telnetVars == <<t_state, t_pc, t_sock, t_req_rx, t_ev_rx, t_ops, t_last>>
tuiVars == <<tui_state, tui_req_rx>>
layoutVars == <<tui_layout, lay_call>>
routerVars == <<r_pc, r_cur, r_out, r_ret, r_sent, r_count>>
orderVars == <<ord>>
inputVars == <<in_state, history, in_op>>

vars == <<rb, rb_pre, rb_op, pushed, onlyPush,
          sc_state, sc_req_rx, sc_i_rx, sc_ev_rx, expects, th, sc_last,
          t_state, t_pc, t_sock, t_req_rx, t_ev_rx, t_ops, t_last,
          tui_state, tui_req_rx, tui_layout, lay_call,
          r_pc, r_cur, r_out, r_ret, r_sent, r_count, ord,
          in_state, history, in_op>>

-----------------------------------------------------------------------------
(***************************************************************************)
(* Bounds of the model.                                                    *)
(***************************************************************************)
MaxCap == 3
MaxPushes == 5
\* The script threads that may be started.
MaxScripts == 3
\* The capacity the model gives the request and event channels.
ChanCap == 1
\* The events the router handles in one run of the model.
MaxRouted == 3
\* The children a container of a layout has at most.
MaxChildren == 2
\* The capacity the model gives the history of the line editor.
HistCap == 2
\* The Expect events and the Output requests queued in one run of the model.
MaxQueued == 3

\* The element type T of the buffer: three values that compare by equality.
Values == {"a", "b", "c"}

\* Option::None, in a slot of the buffer and as the result of a search.
None == "none"
NoIndex == -1

Min(a, b) == IF a < b THEN a ELSE b

-----------------------------------------------------------------------------
(***************************************************************************)
(* ring.rs.  Indices are the 0-based indices of the code; slot k of the    *)
(* Vec is element k + 1 of the TLA+ sequence.                              *)
(***************************************************************************)

\* RingBuffer::new(capacity)
New(capacity) ==
    [buffer |-> [k \in 1..capacity |-> None], front |-> 0, back |-> 0]

\* self.buffer.len()
BufLen(r) == Len(r.buffer)

\* self.buffer[k]
Slot(r, k) == r.buffer[k + 1]

\* RingBuffer::is_full
IsFull(r) == r.front = r.back /\ Slot(r, r.front) # None

\* RingBuffer::is_empty
IsEmpty(r) == r.front = r.back /\ Slot(r, r.front) = None

\* RingBuffer::size
Size(r) ==
    IF IsFull(r) THEN BufLen(r)
    ELSE IF r.back >= r.front THEN r.back - r.front
    ELSE BufLen(r) - r.front + r.back

\* RingBuffer::get
Get(r, index) == Slot(r, (r.front + index) % BufLen(r))

\* A plausible slip in push_back: front advances on every call.
PushBackAdvancing(r, value) ==
    [buffer |-> [r.buffer EXCEPT ![r.back + 1] = value],
     front  |-> (r.front + 1) % BufLen(r),
     back   |-> (r.back + 1) % BufLen(r)]

\* A plausible slip in push_back: the oldest element is not evicted.
PushBackNoEvict(r, value) ==
    [r EXCEPT !.buffer[r.back + 1] = value,
              !.back = (r.back + 1) % BufLen(r)]

\* RingBuffer::push_back
PushBack(r, value) ==
    LET f == IF IsFull(r) THEN (r.front + 1) % BufLen(r) ELSE r.front
    IN  [buffer |-> [r.buffer EXCEPT ![r.back + 1] = value],
         front  |-> f,
         back   |-> (r.back + 1) % BufLen(r)]

\* A plausible slip in find_forwards: the test for index 0 comes before the
\* test of the predicate, so that the oldest element is never found.
RECURSIVE FindForwardsAboveZero(_, _, _)
FindForwardsAboveZero(r, sat, iter) ==
    IF Get(r, iter) = None THEN NoIndex
    ELSE IF iter = 0 THEN NoIndex
    ELSE IF Get(r, iter) \in sat THEN iter
    ELSE FindForwardsAboveZero(r, sat, iter - 1)

\* RingBuffer::find_forwards, with the predicate given as the set of the
\* values that satisfy it: walks from start_at down to 0.
RECURSIVE FindForwards(_, _, _)
FindForwards(r, sat, iter) ==
    IF Get(r, iter) = None THEN NoIndex
    ELSE IF Get(r, iter) \in sat THEN iter
    ELSE IF iter = 0 THEN NoIndex
    ELSE FindForwards(r, sat, iter - 1)

\* slice[lo..hi].rotate_left(1) on the Vec (lo <= hi, 0-based, hi exclusive)
RotateLeft1(buf, lo, hi) ==
    [k \in 1..Len(buf) |->
        IF k - 1 < lo \/ k - 1 >= hi THEN buf[k]
        ELSE IF k - 1 = hi - 1 THEN buf[lo + 1]
        ELSE buf[k + 1]]

\* Vec::swap
Swap(buf, i, j) == [buf EXCEPT ![i + 1] = buf[j + 1], ![j + 1] = buf[i + 1]]

\* A plausible slip in the wrap-around move: the final swap is missing.
WrapMoveNoSwap(buf, src, dst) ==
    RotateLeft1(RotateLeft1(buf, src, Len(buf)), 0, dst)

\* find_and_push_back, the branch src >= dst: the occupied range from the
\* match to the newest element crosses the end of the array.
WrapMove(buf, src, dst) ==
    LET cap == Len(buf)
        b1 == RotateLeft1(buf, src, cap)
        b2 == RotateLeft1(b1, 0, dst)
    IN  Swap(b2, cap - 1, dst - 1)

\* A plausible slip in find_and_push_back: no push when nothing is found.
FindAndPushBackNoFallback(r, value) ==
    IF IsEmpty(r) THEN PushBack(r, value)
    ELSE LET index == FindForwards(r, {value}, Size(r) - 1) IN
         IF index # NoIndex
         THEN LET dst == IF r.back = 0 THEN BufLen(r) ELSE r.back
                  src == (r.front + index) % BufLen(r)
              IN  IF src = dst - 1 THEN r
                  ELSE IF src < dst
                       THEN [r EXCEPT !.buffer = RotateLeft1(r.buffer, src, dst)]
                       ELSE [r EXCEPT !.buffer = WrapMove(r.buffer, src, dst)]
         ELSE r

\* RingBuffer::find_and_push_back
FindAndPushBack(r, value) ==
    IF IsEmpty(r) THEN PushBack(r, value)
    ELSE LET index == FindForwards(r, {value}, Size(r) - 1) IN
         IF index # NoIndex
         THEN LET dst == IF r.back = 0 THEN BufLen(r) ELSE r.back
                  src == (r.front + index) % BufLen(r)
              IN  IF src = dst - 1 THEN r
                  ELSE IF src < dst
                       THEN [r EXCEPT !.buffer = RotateLeft1(r.buffer, src, dst)]
                       ELSE [r EXCEPT !.buffer = WrapMove(r.buffer, src, dst)]
         ELSE PushBack(r, value)

\* The logical contents, oldest first: get(0), ..., get(size() - 1).
Contents(r) == [i \in 1..Size(r) |-> Get(r, i - 1)]

-----------------------------------------------------------------------------
(***************************************************************************)
(* The ring buffer as a state machine: a buffer of some capacity is        *)
(* created, then push_back and find_and_push_back are called on it.        *)
(***************************************************************************)
NoOp == [name |-> "new", arg |-> None]

InitRing ==
    /\ \E c \in 1..MaxCap : rb = New(c) /\ rb_pre = New(c)
    /\ rb_op = NoOp
    /\ pushed = <<>>
    /\ onlyPush = TRUE

RingPushBack ==
    \E v \in Values :
        /\ onlyPush => Len(pushed) < MaxPushes
        /\ rb' = PushBack(rb, v)
        /\ rb_pre' = rb
        /\ rb_op' = [name |-> "push_back", arg |-> v]
        /\ pushed' = IF onlyPush THEN Append(pushed, v) ELSE pushed
        /\ UNCHANGED onlyPush

RingFindAndPushBack ==
    \E v \in Values :
        /\ rb' = FindAndPushBack(rb, v)
        /\ rb_pre' = rb
        /\ rb_op' = [name |-> "find_and_push_back", arg |-> v]
        /\ pushed' = <<>>
        /\ onlyPush' = FALSE

(***************************************************************************)
(* Properties of the ring buffer.                                          *)
(***************************************************************************)
\* The largest index of s that holds v (s contains v).
LastIndexOf(s, v) ==
    CHOOSE k \in 1..Len(s) : s[k] = v /\ \A j \in (k + 1)..Len(s) : s[j] # v

RemoveAt(s, k) == SubSeq(s, 1, k - 1) \o SubSeq(s, k + 1, Len(s))

Occurs(s, v) == \E k \in 1..Len(s) : s[k] = v

CalledFindAndPushBack == rb_op.name = "find_and_push_back"

\* C3: find_and_push_back(v) on a buffer that contains v keeps size(), moves
\* the newest occurrence of v to the newest logical index and keeps every
\* other element, in its order: nothing is duplicated or lost.
C3_PromoteExisting ==
    (CalledFindAndPushBack /\ Occurs(Contents(rb_pre), rb_op.arg)) =>
        LET old == Contents(rb_pre)
            k   == LastIndexOf(old, rb_op.arg)
        IN  /\ Size(rb) = Size(rb_pre)
            /\ BufLen(rb) = BufLen(rb_pre)
            /\ Get(rb, Size(rb) - 1) = rb_op.arg
            /\ Contents(rb) = Append(RemoveAt(old, k), rb_op.arg)

\* C3, the case reached: the buffer was full with front # 0 and the match
\* lay between front and the array end, so that the elements newer than it
\* cross the array end (the branch of two rotations and a swap).
C3_Witness ==
    /\ CalledFindAndPushBack
    /\ Occurs(Contents(rb_pre), rb_op.arg)
    /\ IsFull(rb_pre) /\ rb_pre.front # 0
    /\ LET k   == LastIndexOf(Contents(rb_pre), rb_op.arg)
           src == (rb_pre.front + k - 1) % BufLen(rb_pre)
       IN  src >= rb_pre.back
    /\ Contents(rb) # Contents(rb_pre)

\* C4: find_and_push_back(v) on a buffer that does not contain v leaves
\* exactly the buffer push_back(v) leaves: same slots, same front and back.
C4_AbsentIsPushBack ==
    (CalledFindAndPushBack /\ ~Occurs(Contents(rb_pre), rb_op.arg)) =>
        rb = PushBack(rb_pre, rb_op.arg)

\* C4, the case reached: v was absent from a full buffer, whose oldest
\* element was evicted.
C4_Witness ==
    /\ CalledFindAndPushBack
    /\ ~Occurs(Contents(rb_pre), rb_op.arg)
    /\ IsFull(rb_pre)
    /\ Get(rb, Size(rb) - 1) = rb_op.arg
    /\ rb.front = (rb_pre.front + 1) % BufLen(rb)

\* C5: after n push_back calls on a new buffer of capacity c, size() is
\* min(n, c) and get(i) is the (n - size() + i)-th pushed value.
C5_PushBackKeepsNewest ==
    onlyPush =>
        LET n == Len(pushed)
            s == Size(rb)
        IN  /\ s = Min(n, BufLen(rb))
            /\ s <= BufLen(rb)
            /\ \A i \in 0..(s - 1) : Get(rb, i) = pushed[n - s + i + 1]

\* C5, the case reached: two pushes beyond the capacity of a buffer of
\* capacity 2 or more.
C5_Witness ==
    /\ onlyPush
    /\ BufLen(rb) >= 2
    /\ Len(pushed) >= BufLen(rb) + 2
    /\ Get(rb, 0) = pushed[Len(pushed) - BufLen(rb) + 1]

-----------------------------------------------------------------------------
(***************************************************************************)
(* input.rs: the line editor.  A String is a TLA+ string; its characters   *)
(* are "a", of one byte, and "E", which stands for a character of two      *)
(* bytes (such as e with an acute accent).  The user types the texts of    *)
(* Typed.  The history is a RingBuffer<String>.                            *)
(***************************************************************************)
Chars == {"a", "E"}

TypedChars ==
    {<<>>, <<"a">>, <<"E">>,
     <<"a", "a">>, <<"a", "E">>, <<"E", "a">>, <<"E", "E">>}

\* chars.collect::<String>()
RECURSIVE Collect(_)
Collect(cs) == IF cs = <<>> THEN "" ELSE Head(cs) \o Collect(Tail(cs))

Typed == {Collect(cs) : cs \in TypedChars}

\* str::chars
CharsOf(s) == CHOOSE cs \in TypedChars : Collect(cs) = s

\* str.chars().count()
CharCount(s) == Len(CharsOf(s))

RECURSIVE Utf8Len(_)
Utf8Len(cs) ==
    IF cs = <<>> THEN 0
    ELSE (IF Head(cs) = "E" THEN 2 ELSE 1) + Utf8Len(Tail(cs))

\* str::len: the length in bytes
StrLen(s) == Utf8Len(CharsOf(s))

\* str::starts_with
StartsWith(s, prefix) ==
    LET p == CharsOf(prefix)
        c == CharsOf(s)
    IN  Len(p) <= Len(c) /\ p = SubSeq(c, 1, Len(p))

\* The closure |x| x.starts_with(prefix) of up and down, as the set of the
\* strings that satisfy it.
StartingWith(prefix) == {x \in Typed : StartsWith(x, prefix)}

\* A slice that starts off a character boundary or beyond the end panics.
Panic == "panic"

\* &s[from..], with `from` in bytes
SliceFrom(s, from) ==
    LET cs == CharsOf(s)
        at == {k \in 0..Len(cs) : Utf8Len(SubSeq(cs, 1, k)) = from}
    IN  IF at = {} THEN Panic
        ELSE LET k == CHOOSE k \in at : TRUE
             IN  Collect(SubSeq(cs, k + 1, Len(cs)))

\* insert_string
InsertString(source, what, position) ==
    LET cs == CharsOf(source) IN
    IF position > Len(cs) THEN source
    ELSE Collect(SubSeq(cs, 1, position) \o CharsOf(what)
                    \o SubSeq(cs, position + 1, Len(cs)))

\* del_from_string
DelFromString(source, position) ==
    LET cs == CharsOf(source) IN
    IF Len(cs) = 0 \/ position >= Len(cs) THEN source
    ELSE Collect(SubSeq(cs, 1, position) \o SubSeq(cs, position + 2, Len(cs)))

\* RingBuffer::find_backwards, with the predicate given as the set of the
\* values that satisfy it: walks from start_at up.
RECURSIVE FindBackwards(_, _, _)
FindBackwards(r, sat, iter) ==
    IF Get(r, iter) = None THEN NoIndex
    ELSE IF iter = BufLen(r) THEN NoIndex
    ELSE IF Get(r, iter) \in sat THEN iter
    ELSE FindBackwards(r, sat, iter + 1)

\* self.history.get(index).clone().unwrap_or_default()
GetOrDefault(h, index) == IF Get(h, index) = None THEN "" ELSE Get(h, index)

\* enum InputState; the fields of the other variant are left at their
\* default.
Typing(buffer, cursor_position) ==
    [mode |-> "Typing", buffer |-> buffer, cursor_position |-> cursor_position,
     search_term |-> "", index |-> 0]

HistorySearch(search_term, index) ==
    [mode |-> "HistorySearch", buffer |-> "", cursor_position |-> 0,
     search_term |-> search_term, index |-> index]

\* InputState::empty_typing
EmptyTyping == Typing("", 0)

\* InputState::typing_from_buffer
TypingFromBuffer(buffer) == Typing(buffer, CharCount(buffer))

\* What an operation leaves and returns.
Outcome(st, h, result) == [state |-> st, history |-> h, result |-> result]

\* A plausible slip in get_and_submit: the line is pushed, not promoted.
GetAndSubmitPushing(st, h) ==
    IF st.mode = "Typing"
    THEN Outcome(EmptyTyping,
                 IF st.buffer # "" THEN PushBack(h, st.buffer) ELSE h,
                 st.buffer)
    ELSE LET submit == IF st.search_term = "" THEN GetOrDefault(h, st.index)
                       ELSE st.search_term
         IN  Outcome(EmptyTyping, PushBack(h, submit), submit)

\* A plausible slip in get_and_submit: the search term is always submitted.
GetAndSubmitTerm(st, h) ==
    IF st.mode = "Typing"
    THEN Outcome(EmptyTyping,
                 IF st.buffer # "" THEN FindAndPushBack(h, st.buffer) ELSE h,
                 st.buffer)
    ELSE Outcome(EmptyTyping,
                 IF st.search_term # "" THEN FindAndPushBack(h, st.search_term)
                 ELSE h,
                 st.search_term)

\* A plausible slip in get_and_submit: an empty buffer is recorded too.
GetAndSubmitEmpty(st, h) ==
    IF st.mode = "Typing"
    THEN Outcome(EmptyTyping, FindAndPushBack(h, st.buffer), st.buffer)
    ELSE LET submit == IF st.search_term = "" THEN GetOrDefault(h, st.index)
                       ELSE st.search_term
         IN  Outcome(EmptyTyping, FindAndPushBack(h, submit), submit)

\* InputLine::get_and_submit
GetAndSubmit(st, h) ==
    IF st.mode = "Typing"
    THEN Outcome(EmptyTyping,
                 IF st.buffer # "" THEN FindAndPushBack(h, st.buffer) ELSE h,
                 st.buffer)
    ELSE LET submit == IF st.search_term = "" THEN GetOrDefault(h, st.index)
                       ELSE st.search_term
         IN  Outcome(EmptyTyping, FindAndPushBack(h, submit), submit)

\* A plausible slip in get_and_clear: it is get_and_submit.
GetAndClearSubmitting(st, h) == GetAndSubmit(st, h)

\* InputLine::get_and_clear
GetAndClear(st, h) ==
    Outcome(EmptyTyping, h,
            IF st.mode = "Typing" THEN st.buffer ELSE st.search_term)

\* InputLine::as_line: the white part and the cyan part
AsLine(st, h) ==
    IF st.mode = "Typing" THEN [input |-> st.buffer, completion |-> ""]
    ELSE LET history_entry == GetOrDefault(h, st.index) IN
         IF st.search_term = ""
         THEN [input |-> history_entry, completion |-> ""]
         ELSE [input |-> st.search_term,
               completion |-> SliceFrom(history_entry, StrLen(st.search_term))]

\* InputLine::cursor_position
CursorPosition(st, h) ==
    IF st.mode = "Typing" THEN st.cursor_position
    ELSE IF st.search_term = "" THEN StrLen(GetOrDefault(h, st.index))
    ELSE CharCount(st.search_term)

\* A plausible slip in type_string: the cursor advances by the bytes of the
\* text typed.
TypeStringBytes(st, stuff) ==
    IF st.mode = "Typing"
    THEN Typing(InsertString(st.buffer, stuff, st.cursor_position),
                st.cursor_position + StrLen(stuff))
    ELSE st

\* InputLine::type_string
TypeString(st, stuff) ==
    IF st.mode = "Typing"
    THEN Typing(InsertString(st.buffer, stuff, st.cursor_position),
                st.cursor_position + CharCount(stuff))
    ELSE st

\* A plausible slip in cancel_history_search: the text kept is the query
\* also when the query is empty.
CancelHistorySearchToQuery(st, h) ==
    IF st.mode = "HistorySearch"
    THEN TypingFromBuffer(st.search_term)
    ELSE st

\* InputLine::cancel_history_search
CancelHistorySearch(st, h) ==
    IF st.mode = "HistorySearch"
    THEN TypingFromBuffer(IF st.search_term = "" THEN GetOrDefault(h, st.index)
                          ELSE st.search_term)
    ELSE st

\* usize::saturating_sub(1)
SaturatingSub1(n) == IF n = 0 THEN 0 ELSE n - 1

\* InputLine::left
Left(st, h) ==
    LET t == CancelHistorySearch(st, h)
    IN  Typing(t.buffer, SaturatingSub1(t.cursor_position))

\* A plausible slip in right and end: the search is cancelled as left does.
RightCancelling(st, h) ==
    IF st.mode = "Typing"
    THEN IF st.cursor_position < CharCount(st.buffer)
         THEN Typing(st.buffer, st.cursor_position + 1)
         ELSE st
    ELSE CancelHistorySearch(st, h)

\* InputLine::right
Right(st, h) ==
    IF st.mode = "Typing"
    THEN IF st.cursor_position < CharCount(st.buffer)
         THEN Typing(st.buffer, st.cursor_position + 1)
         ELSE st
    ELSE TypingFromBuffer(GetOrDefault(h, st.index))

\* InputLine::home
Home(st, h) == Typing(CancelHistorySearch(st, h).buffer, 0)

\* InputLine::end
End(st, h) ==
    IF st.mode = "Typing"
    THEN Typing(st.buffer, CharCount(st.buffer))
    ELSE TypingFromBuffer(GetOrDefault(h, st.index))

\* InputLine::backspace
Backspace(st, h) ==
    LET t == CancelHistorySearch(st, h) IN
    IF t.cursor_position > 0
    THEN Typing(DelFromString(t.buffer, t.cursor_position - 1),
                SaturatingSub1(t.cursor_position))
    ELSE t

\* InputLine::delete
Delete(st, h) ==
    LET t == CancelHistorySearch(st, h)
    IN  Typing(DelFromString(t.buffer, t.cursor_position), t.cursor_position)

\* A plausible slip in up: in a search the previous entry is taken without
\* testing its prefix.
UpToPrevious(st, h) ==
    IF st.mode = "Typing"
    THEN IF IsEmpty(h) THEN st
         ELSE LET index == FindForwards(h, StartingWith(st.buffer), Size(h) - 1) IN
              IF index # NoIndex THEN HistorySearch(st.buffer, index) ELSE st
    ELSE IF st.index = 0 THEN st
         ELSE HistorySearch(st.search_term, st.index - 1)

\* A plausible slip in up: a search that finds no older entry is left, as
\* down leaves it.
UpLeavingSearch(st, h) ==
    IF st.mode = "Typing"
    THEN IF IsEmpty(h) THEN st
         ELSE LET index == FindForwards(h, StartingWith(st.buffer), Size(h) - 1) IN
              IF index # NoIndex THEN HistorySearch(st.buffer, index) ELSE st
    ELSE IF st.index = 0 THEN st
         ELSE LET find_index ==
                      FindForwards(h, StartingWith(st.search_term), st.index - 1)
              IN  IF find_index # NoIndex
                  THEN HistorySearch(st.search_term, find_index)
                  ELSE TypingFromBuffer(st.search_term)

\* A plausible slip in up: the search starts at the oldest entry.
UpFromOldest(st, h) ==
    IF st.mode = "Typing"
    THEN IF IsEmpty(h) THEN st
         ELSE LET index == FindBackwards(h, StartingWith(st.buffer), 0) IN
              IF index # NoIndex THEN HistorySearch(st.buffer, index) ELSE st
    ELSE IF st.index = 0 THEN st
         ELSE LET find_index ==
                      FindForwards(h, StartingWith(st.search_term), st.index - 1)
              IN  IF find_index # NoIndex
                  THEN HistorySearch(st.search_term, find_index)
                  ELSE st

\* InputLine::up
Up(st, h) ==
    IF st.mode = "Typing"
    THEN IF IsEmpty(h) THEN st
         ELSE LET index == FindForwards(h, StartingWith(st.buffer), Size(h) - 1) IN
              IF index # NoIndex THEN HistorySearch(st.buffer, index) ELSE st
    ELSE IF st.index = 0 THEN st
         ELSE LET find_index ==
                      FindForwards(h, StartingWith(st.search_term), st.index - 1)
              IN  IF find_index # NoIndex
                  THEN HistorySearch(st.search_term, find_index)
                  ELSE st

\* A plausible slip in down: the next entry is taken without a search.
DownToNext(st, h) ==
    IF st.mode = "Typing" THEN st
    ELSE IF st.index + 1 >= Size(h)
         THEN Typing(st.search_term, CharCount(st.search_term))
         ELSE HistorySearch(st.search_term, st.index + 1)

\* InputLine::down
Down(st, h) ==
    IF st.mode = "Typing" THEN st
    ELSE IF st.index = Size(h)
         THEN Typing(st.search_term, CharCount(st.search_term))
         ELSE LET find_index ==
                      FindBackwards(h, StartingWith(st.search_term), st.index + 1)
              IN  IF find_index # NoIndex
                  THEN HistorySearch(st.search_term, find_index)
                  ELSE TypingFromBuffer(st.search_term)

\* InputLine::cancel
Cancel(st) ==
    IF st.mode = "Typing" THEN EmptyTyping
    ELSE TypingFromBuffer(st.search_term)

\* InputLine::new, with the capacity the model gives the history
InitInput ==
    /\ in_state = EmptyTyping
    /\ history = New(HistCap)
    /\ in_op = [name |-> "new", state |-> EmptyTyping,
                history |-> New(HistCap), ret |-> None]

\* An operation of the editor is called: it leaves the state st and the
\* history h, and returns ret.
Called(name, st, h, ret) ==
    /\ in_state' = st
    /\ history' = h
    /\ in_op' = [name |-> name, state |-> in_state, history |-> history,
                 ret |-> ret]

InputGetAndSubmit ==
    LET o == GetAndSubmit(in_state, history)
    IN  Called("get_and_submit", o.state, o.history, o.result)

InputGetAndClear ==
    LET o == GetAndClear(in_state, history)
    IN  Called("get_and_clear", o.state, o.history, o.result)

\* A key is typed; the user types the texts of Typed.
InputTypeString ==
    \E ch \in Chars :
        /\ TypeString(in_state, ch).buffer \in Typed
        /\ Called("type_string", TypeString(in_state, ch), history, None)

InputLeft == Called("left", Left(in_state, history), history, None)
InputRight == Called("right", Right(in_state, history), history, None)
InputHome == Called("home", Home(in_state, history), history, None)
InputEnd == Called("end", End(in_state, history), history, None)
InputBackspace == Called("backspace", Backspace(in_state, history), history, None)
InputDelete == Called("delete", Delete(in_state, history), history, None)
InputUp == Called("up", Up(in_state, history), history, None)
InputDown == Called("down", Down(in_state, history), history, None)
InputCancel == Called("cancel", Cancel(in_state), history, None)

-----------------------------------------------------------------------------
(***************************************************************************)
(* script.rs: the automation actor.  A regular expression is modelled by   *)
(* the lines it matches: "x" matches the line "x" only, "." matches every  *)
(* line, and "(" does not compile.                                         *)
(***************************************************************************)
Lines == {"x", "y"}
Patterns == {"x", ".", "("}
Threads == 1..MaxScripts

\* Regex::new(&pattern) succeeds
Compiles(pattern) == pattern # "("

\* Regex::is_match
IsMatch(pattern, data) == pattern = "." \/ pattern = data

\* A script thread: st is "none" (not started), "run", "wait" (blocked in
\* rx.blocking_recv()) or "end"; tx is where the oneshot Sender of its
\* current expect call is: "none", "live" (queued or in expects), "sent",
\* "refused" (dropped with a pattern that does not compile) or "dropped"
\* (dropped with the actor's task); got holds what was sent on the oneshot
\* channel; errs counts the Error events emitted for the script's failure.
NewThread == [st |-> "none", tx |-> "none", got |-> <<>>, errs |-> 0]

NoRequest == [kind |-> "none", data |-> None, expects |-> <<>>, th |-> <<>>]

InitScript ==
    /\ sc_state = "running"
    /\ sc_req_rx = <<>>
    /\ sc_i_rx = <<>>
    /\ sc_ev_rx = <<>>
    /\ expects = <<>>
    /\ th = [t \in Threads |-> NewThread]
    /\ sc_last = NoRequest

\* The indices (0-based, ascending) of the waiters whose pattern matches:
\* the Vec `matches` of handle_request.
RECURSIVE MatchesFrom(_, _, _)
MatchesFrom(exps, data, idx) ==
    IF idx >= Len(exps) THEN <<>>
    ELSE IF IsMatch(exps[idx + 1].pattern, data)
         THEN <<idx>> \o MatchesFrom(exps, data, idx + 1)
         ELSE MatchesFrom(exps, data, idx + 1)

Matches(exps, data) == MatchesFrom(exps, data, 0)

\* A plausible slip: the waiter is answered with a fixed text, not with the
\* line.
OneshotSendFixed(ths, t, data) ==
    [ths EXCEPT ![t].tx = "sent", ![t].got = Append(@, "x")]

\* tx.send(data) on the oneshot channel of thread t
OneshotSend(ths, t, data) ==
    [ths EXCEPT ![t].tx = "sent", ![t].got = Append(@, data)]

\* The loop `for idx in matches` of handle_request: Vec::remove(idx) on the
\* list as it is by then, and a panic when idx is out of its bounds.  The
\* receiver of a pending waiter is held by its blocked script thread, so
\* tx.send does not fail.
RECURSIVE ResolveMatches(_, _, _, _)
ResolveMatches(exps, ths, ms, data) ==
    IF ms = <<>> THEN [expects |-> exps, th |-> ths, panicked |-> FALSE]
    ELSE LET idx == Head(ms) IN
         IF idx >= Len(exps)
         THEN [expects |-> exps, th |-> ths, panicked |-> TRUE]
         ELSE ResolveMatches(RemoveAt(exps, idx + 1),
                             OneshotSend(ths, exps[idx + 1].tx, data),
                             Tail(ms), data)

\* A plausible slip: the Senders outlive the task (kept in a shared list),
\* so that the scripts blocked on them wait for ever.
DropSendersLeaked(ths) == ths

\* Dropping the ScriptEngine and the receivers of its task drops every
\* oneshot Sender still held: those in expects and those queued in i_rx.
DropSenders(ths) ==
    [t \in Threads |-> IF ths[t].tx = "live"
                       THEN [ths[t] EXCEPT !.tx = "dropped"] ELSE ths[t]]

\* ScriptEngineEvent::Error(err); the text of the error is not modelled.
ErrorEvent == [type |-> "Error"]

\* The router (or any holder of req_tx) sends a request.
ScriptRequestSent ==
    /\ sc_state = "running"
    /\ Len(sc_req_rx) < ChanCap
    /\ \E req \in [type : {"Output"}, data : Lines]
                  \cup [type : {"ExecuteScriptFile"}, data : {"path"}]
                  \cup [type : {"Shutdown"}, data : {None}] :
            sc_req_rx' = Append(sc_req_rx, req)
    /\ sc_last' = NoRequest
    /\ UNCHANGED <<sc_state, sc_i_rx, sc_ev_rx, expects, th>>

\* The router receives an event of the actor.
ScriptEventTaken ==
    /\ sc_ev_rx # <<>>
    /\ sc_ev_rx' = Tail(sc_ev_rx)
    /\ sc_last' = NoRequest
    /\ UNCHANGED <<sc_state, sc_req_rx, sc_i_rx, expects, th>>

\* handle_request(Output(data)), as the select! arm of the actor loop.
HandleOutput ==
    /\ sc_state = "running"
    /\ sc_req_rx # <<>>
    /\ Head(sc_req_rx).type = "Output"
    /\ LET data == Head(sc_req_rx).data
           r    == ResolveMatches(expects, th, Matches(expects, data), data)
       IN  /\ sc_last' = [kind |-> "Output", data |-> data,
                          expects |-> expects, th |-> th]
           /\ IF r.panicked
              THEN /\ sc_state' = "panicked"
                   /\ expects' = <<>>
                   /\ th' = DropSenders(r.th)
                   /\ sc_req_rx' = <<>>
                   /\ sc_i_rx' = <<>>
              ELSE /\ expects' = r.expects
                   /\ th' = r.th
                   /\ sc_req_rx' = Tail(sc_req_rx)
                   /\ UNCHANGED <<sc_state, sc_i_rx>>
    /\ UNCHANGED sc_ev_rx

\* handle_request(ExecuteScriptFile(path)): std::fs::read_to_string fails,
\* which is an Error event, or the script is read and execute_script
\* starts a script thread.
HandleExecuteScriptFile ==
    /\ sc_state = "running"
    /\ sc_req_rx # <<>>
    /\ Head(sc_req_rx).type = "ExecuteScriptFile"
    /\ sc_req_rx' = Tail(sc_req_rx)
    /\ \/ /\ Len(sc_ev_rx) < ChanCap
          /\ sc_ev_rx' = Append(sc_ev_rx, ErrorEvent)
          /\ sc_last' = [NoRequest EXCEPT !.kind = "ExecuteScriptFile",
                                          !.data = "unreadable"]
          /\ UNCHANGED th
       \/ /\ \E t \in Threads :
                /\ th[t].st = "none"
                /\ \A u \in Threads : u < t => th[u].st # "none"
                /\ th' = [th EXCEPT ![t].st = "run"]
          /\ sc_last' = [NoRequest EXCEPT !.kind = "ExecuteScriptFile"]
          /\ UNCHANGED sc_ev_rx
    /\ UNCHANGED <<sc_state, sc_i_rx, expects>>

\* handle_request(Shutdown): the loop breaks and the task ends.
HandleShutdown ==
    /\ sc_state = "running"
    /\ sc_req_rx # <<>>
    /\ Head(sc_req_rx).type = "Shutdown"
    /\ sc_state' = "stopped"
    /\ sc_last' = [NoRequest EXCEPT !.kind = "Shutdown"]
    /\ expects' = <<>>
    /\ th' = DropSenders(th)
    /\ sc_req_rx' = <<>>
    /\ sc_i_rx' = <<>>
    /\ UNCHANGED sc_ev_rx

\* handle_script_event(Expect(pattern, tx)), the other select! arm.
HandleScriptEvent ==
    /\ sc_state = "running"
    /\ sc_i_rx # <<>>
    /\ sc_i_rx' = Tail(sc_i_rx)
    /\ sc_last' = [kind |-> "Expect", data |-> Head(sc_i_rx).pattern,
                   expects |-> expects, th |-> << Head(sc_i_rx).tx >>]
    /\ LET ev == Head(sc_i_rx) IN
       IF Compiles(ev.pattern)
       THEN /\ expects' = Append(expects, ev)
            /\ UNCHANGED <<th, sc_ev_rx>>
       ELSE /\ Len(sc_ev_rx) < ChanCap
            /\ sc_ev_rx' = Append(sc_ev_rx, ErrorEvent)
            /\ th' = [th EXCEPT ![ev.tx].tx = "refused", ![ev.tx].errs = @ + 1]
            /\ UNCHANGED expects
    /\ UNCHANGED <<sc_state, sc_req_rx>>

\* The capability expect(pattern) called by a running script: the Expect
\* event is queued and the thread blocks on the oneshot receiver; once the
\* actor's task is over i_rx is gone, blocking_send fails and the script
\* fails with it.
ScriptCallsExpect ==
    \E t \in Threads, pattern \in Patterns :
        /\ th[t].st = "run"
        /\ IF sc_state = "running"
           THEN /\ Len(sc_i_rx) < ChanCap
                /\ sc_i_rx' = Append(sc_i_rx, [pattern |-> pattern, tx |-> t])
                /\ th' = [th EXCEPT ![t] = [NewThread EXCEPT !.st = "wait", !.tx = "live"]]
                /\ UNCHANGED sc_ev_rx
           ELSE /\ Len(sc_ev_rx) < ChanCap
                /\ sc_ev_rx' = Append(sc_ev_rx, ErrorEvent)
                /\ th' = [th EXCEPT ![t].st = "end", ![t].errs = @ + 1]
                /\ UNCHANGED sc_i_rx
        /\ sc_last' = NoRequest
        /\ UNCHANGED <<sc_state, sc_req_rx, expects>>

\* What rx.blocking_recv() has just returned to a thread that was as `was`.
Resumed(was, result) ==
    [kind |-> "Resumed", data |-> result, expects |-> <<>>, th |-> <<was>>]

\* rx.blocking_recv() returns: with the line sent, and the script goes on,
\* or with an error once the Sender was dropped, and the script fails
\* (engine.run returns the error, reported as an Error event).
ScriptResumes ==
    \E t \in Threads :
        /\ th[t].st = "wait"
        /\ \/ /\ th[t].tx = "sent"
              /\ th' = [th EXCEPT ![t] = [NewThread EXCEPT !.st = "run"]]
              /\ sc_last' = Resumed(th[t], th[t].got[1])
              /\ UNCHANGED sc_ev_rx
           \/ /\ th[t].tx \in {"dropped", "refused"}
              /\ Len(sc_ev_rx) < ChanCap
              /\ th' = [th EXCEPT ![t] = [NewThread EXCEPT !.st = "end",
                                                         !.errs = th[t].errs + 1]]
              /\ sc_last' = Resumed(th[t], "error")
              /\ sc_ev_rx' = Append(sc_ev_rx, ErrorEvent)
        /\ UNCHANGED <<sc_state, sc_req_rx, sc_i_rx, expects>>

\* engine.run returns Ok: the script is over.
ScriptEnds ==
    \E t \in Threads :
        /\ th[t].st = "run"
        /\ th' = [th EXCEPT ![t].st = "end"]
        /\ sc_last' = NoRequest
        /\ UNCHANGED <<sc_state, sc_req_rx, sc_i_rx, sc_ev_rx, expects>>

\* engine.run returns an error (a syntax error, a runtime exception or a
\* capability that fails in the thread, as a rejected set_layout): the
\* thread emits the Error event and the script is over.
ScriptFails ==
    \E t \in Threads :
        /\ th[t].st = "run"
        /\ Len(sc_ev_rx) < ChanCap
        /\ sc_ev_rx' = Append(sc_ev_rx, ErrorEvent)
        /\ th' = [th EXCEPT ![t].st = "end", ![t].errs = @ + 1]
        /\ sc_last' = NoRequest
        /\ UNCHANGED <<sc_state, sc_req_rx, sc_i_rx, expects>>

(***************************************************************************)
(* Properties of the automation actor.                                     *)
(***************************************************************************)
HandledOutput == sc_last.kind = "Output"

\* The positions, in the list before the Output was handled, of the
\* waiters whose pattern matches the line.
MatchingBefore ==
    {i \in 1..Len(sc_last.expects) :
        IsMatch(sc_last.expects[i].pattern, sc_last.data)}

IsPending(w) == \E j \in 1..Len(expects) : expects[j] = w

\* C1: when an Output line is handled while two or more pending waiters
\* match it, every matching waiter has received the line exactly once and
\* has left the pending list, no waiter was resolved twice, and the actor
\* is still running.
C1_EveryMatchingWaiterResolved ==
    (HandledOutput /\ Cardinality(MatchingBefore) >= 2) =>
        /\ sc_state = "running"
        /\ \A i \in MatchingBefore :
              LET w == sc_last.expects[i]
              IN  /\ th[w.tx].tx = "sent"
                  /\ th[w.tx].got = <<sc_last.data>>
                  /\ ~IsPending(w)
        /\ \A t \in Threads : Len(th[t].got) <= 1

\* C2: handling an Output line neither resolves nor removes a waiter whose
\* pattern does not match it: the non-matching waiters are still pending,
\* in their order, and their reply slots are as before.
C2_NonMatchingWaiterKept ==
    HandledOutput =>
        LET NonMatch(w) == ~IsMatch(w.pattern, sc_last.data)
        IN  /\ SelectSeq(expects, NonMatch) = SelectSeq(sc_last.expects, NonMatch)
            /\ \A i \in 1..Len(sc_last.expects) :
                  NonMatch(sc_last.expects[i]) =>
                      th[sc_last.expects[i].tx] = sc_last.th[sc_last.expects[i].tx]

\* The actor has processed Shutdown and its task is over.
ShutDown == sc_state = "stopped"

HandledExpect == sc_last.kind = "Expect"

\* The thread t goes on after rx.blocking_recv().
ResumeOf(t) ==
    /\ ScriptResumes
    /\ th'[t] # th[t]
    /\ UNCHANGED <<ringVars, telnetVars, tuiVars, layoutVars, routerVars, orderVars, inputVars>>

\* C16: expect(pattern) with a pattern that does not compile fails the
\* calling script step, registers no waiter (the waiter list is as before)
\* and does not leave the script suspended: its reply slot is dropped and
\* the call returns an error; with a valid pattern it registers exactly one
\* waiter, and the call returns exactly the text of the line that resolved
\* the waiter.
C16_ExpectPatternHandling ==
    /\ (HandledExpect /\ ~Compiles(sc_last.data)) =>
          /\ expects = sc_last.expects
          /\ th[sc_last.th[1]].tx = "refused"
    /\ \A t \in Threads :
          th[t].tx = "refused" =>
              /\ th[t].st = "wait"
              /\ \A i \in 1..Len(expects) : expects[i].tx # t
              /\ Len(sc_ev_rx) < ChanCap => ENABLED ResumeOf(t)
    /\ (sc_last.kind = "Resumed" /\ sc_last.th[1].tx = "refused") =>
          sc_last.data = "error"
    /\ (HandledExpect /\ Compiles(sc_last.data)) =>
          expects = Append(sc_last.expects,
                           [pattern |-> sc_last.data, tx |-> sc_last.th[1]])
    /\ HandledOutput =>
          \A t \in Threads :
              (sc_last.th[t].tx = "live" /\ th[t].tx = "sent")
                  => th[t].got = << sc_last.data >>
    /\ (sc_last.kind = "Resumed" /\ sc_last.th[1].tx = "sent") =>
          sc_last.th[1].got = << sc_last.data >>

\* A script's call with a bad pattern has returned an error while the
\* waiter of another script is still registered and a third script has
\* been sent the line "y".
C16_Witness ==
    /\ sc_last.kind = "Resumed"
    /\ sc_last.th[1].tx = "refused"
    /\ expects # <<>>
    /\ \E t \in Threads : th[t].tx = "sent" /\ th[t].got = << "y" >>

\* C17: each script failure (unreadable file, syntax error, runtime
\* exception, failing capability call) results in exactly one Error event
\* for that failure, and the actor keeps processing requests afterwards: a
\* script that has failed has had one Error event emitted for it, never
\* two, an unreadable file has put one Error event in the event queue, and
\* the actor is still running after either.
C17_OneErrorPerFailure ==
    /\ \A t \in Threads : th[t].errs <= 1
    /\ (sc_last.kind = "ExecuteScriptFile" /\ sc_last.data = "unreadable") =>
          /\ sc_ev_rx # <<>>
          /\ sc_ev_rx[Len(sc_ev_rx)] = ErrorEvent
          /\ sc_state = "running"
    /\ (HandledExpect /\ ~Compiles(sc_last.data)) => sc_state = "running"

-----------------------------------------------------------------------------
(***************************************************************************)
(* main.rs: the router.  Its three inbound channels are not stored: the    *)
(* event a select! arm receives is any event its sender can produce.  Its  *)
(* three outbound channels are the request queues of the connection actor, *)
(* of the automation actor and of the presentation task.  A handler is the *)
(* list of its sends; each send is one step, since send().await waits      *)
(* while the queue is full and fails once the receiver is gone.            *)
(***************************************************************************)
Texts == {"look"}
Secrets == {"pw1", "pw2"}
Mask == "*****"
Welcome == "Welcome to Draugr! (press 'Alt+q' to quit)\n"

Msg(type, data) == [type |-> type, data |-> data]
SendTo(to, type, data) == [to |-> to, msg |-> Msg(type, data)]
Event(from, type, data) == [from |-> from, type |-> type, data |-> data]

\* enum TelnetEvent, as received on telnet_rx
TelnetEvents ==
    {Event("telnet", "Data", d) : d \in Lines}
        \cup {Event("telnet", "Unhandled", "event"),
              Event("telnet", "Info", "info"),
              Event("telnet", "Warning", "warning"),
              Event("telnet", "Error", "err")}

\* enum TuiEvent, as received on tui_rx
TuiEvents ==
    {Event("tui", "Send", d) : d \in Texts}
        \cup {Event("tui", "SendSecret", d) : d \in Secrets}
        \cup {Event("tui", "Quit", None)}

\* enum ScriptEngineEvent, as received on script_rx
ScriptEvents ==
    {Event("script", "Send", d) : d \in Texts}
        \cup {Event("script", "SendSecret", d) : d \in Secrets}
        \cup {Event("script", "Connect", "host:port"),
              Event("script", "SetLayout", "layout"),
              Event("script", "Error", "err")}

\* A plausible slip in handle_telnet_event: the output is not mirrored to
\* the script engine.
AppHandleTelnetEventNoOutput(e) ==
    CASE e.type = "Data" -> << SendTo("tui", "Print", e.data) >>
      [] e.type = "Unhandled" ->
            << SendTo("tui", "PrintWarning", "Unhandled telnet event: " \o e.data) >>
      [] e.type = "Info" -> << SendTo("tui", "PrintInfo", e.data) >>
      [] e.type = "Warning" -> << SendTo("tui", "PrintWarning", e.data) >>
      [] e.type = "Error" ->
            << SendTo("tui", "PrintError", "Connection error: " \o e.data) >>

\* App::handle_telnet_event: the sends it makes, in order
AppHandleTelnetEvent(e) ==
    CASE e.type = "Data" ->
            << SendTo("tui", "Print", e.data),
               SendTo("script", "Output", e.data) >>
      [] e.type = "Unhandled" ->
            << SendTo("tui", "PrintWarning", "Unhandled telnet event: " \o e.data) >>
      [] e.type = "Info" -> << SendTo("tui", "PrintInfo", e.data) >>
      [] e.type = "Warning" -> << SendTo("tui", "PrintWarning", e.data) >>
      [] e.type = "Error" ->
            << SendTo("tui", "PrintError", "Connection error: " \o e.data) >>

\* A plausible slip in handle_tui_event: quit stops the connection only.
AppHandleTuiEventQuitTelnetOnly(e) ==
    CASE e.type = "Send" -> << SendTo("telnet", "Send", e.data) >>
      [] e.type = "SendSecret" ->
            << SendTo("telnet", "Send", e.data),
               SendTo("tui", "PrintUserInput", Mask) >>
      [] e.type = "Quit" -> << SendTo("telnet", "Shutdown", None) >>

\* App::handle_tui_event: the sends it makes, in order
AppHandleTuiEvent(e) ==
    CASE e.type = "Send" -> << SendTo("telnet", "Send", e.data) >>
      [] e.type = "SendSecret" ->
            << SendTo("telnet", "Send", e.data),
               SendTo("tui", "PrintUserInput", Mask) >>
      [] e.type = "Quit" ->
            << SendTo("telnet", "Shutdown", None),
               SendTo("script", "Shutdown", None) >>

\* App::handle_tui_event: its result, Ok(true) for quit only
AppHandleTuiEventResult(e) == e.type = "Quit"

\* A plausible slip in handle_script_event: the secret arm echoes like the
\* send arm.
AppHandleScriptEventEchoSecret(e) ==
    CASE e.type = "Connect" -> << SendTo("telnet", "Connect", e.data) >>
      [] e.type \in {"Send", "SendSecret"} ->
            << SendTo("telnet", "Send", e.data),
               SendTo("tui", "PrintUserInput", e.data) >>
      [] e.type = "SetLayout" -> << SendTo("tui", "SetLayout", e.data) >>
      [] e.type = "Error" ->
            << SendTo("tui", "PrintError", "Script error: " \o e.data) >>

\* App::handle_script_event: the sends it makes, in order
AppHandleScriptEvent(e) ==
    CASE e.type = "Connect" -> << SendTo("telnet", "Connect", e.data) >>
      [] e.type = "Send" ->
            << SendTo("telnet", "Send", e.data),
               SendTo("tui", "PrintUserInput", e.data) >>
      [] e.type = "SendSecret" ->
            << SendTo("telnet", "Send", e.data),
               SendTo("tui", "PrintUserInput", Mask) >>
      [] e.type = "SetLayout" -> << SendTo("tui", "SetLayout", e.data) >>
      [] e.type = "Error" ->
            << SendTo("tui", "PrintError", "Script error: " \o e.data) >>

\* The sends of the handler of any event.
Sends(e) ==
    CASE e.from = "telnet" -> AppHandleTelnetEvent(e)
      [] e.from = "tui" -> AppHandleTuiEvent(e)
      [] e.from = "script" -> AppHandleScriptEvent(e)

NoEvent == Event("none", "none", None)

\* main, up to the spawn of the router task: create_tui has queued the
\* welcome message, --address queues a Connect request and --script an
\* ExecuteScriptFile request.
InitRouter ==
    /\ r_pc = "idle"
    /\ r_cur = NoEvent
    /\ r_out = <<>>
    /\ r_ret = FALSE
    /\ r_sent = <<>>
    /\ r_count = 0
    /\ tui_state = "running"
    /\ tui_req_rx = << Msg("Print", Welcome) >>
    /\ t_req_rx \in {<<>>, << Msg("Connect", "host:port") >>}
    /\ ord = [emitted |-> <<>>, shown |-> <<>>, sent |-> t_req_rx, taken |-> <<>>]
    /\ sc_req_rx \in {<<>>, << Msg("ExecuteScriptFile", "path") >>}

\* The receiver of an outbound channel is gone.
Closed(to) ==
    CASE to = "telnet" -> t_state # "running"
      [] to = "script" -> sc_state # "running"
      [] to = "tui" -> tui_state # "running"

\* One arm of select! receives an event and its handler starts.
RouterReceives(e) ==
    /\ r_pc = "idle"
    /\ r_count < MaxRouted
    /\ r_count' = r_count + 1
    /\ r_pc' = "sending"
    /\ r_cur' = e
    /\ r_out' = Sends(e)
    /\ r_ret' = (e.from = "tui" /\ AppHandleTuiEventResult(e))
    /\ r_sent' = <<>>
    /\ UNCHANGED <<tuiVars, t_req_rx, sc_req_rx>>

RouteTelnetEvent == \E e \in TelnetEvents : RouterReceives(e)
RouteTuiEvent == \E e \in TuiEvents : RouterReceives(e)
RouteScriptEvent == \E e \in ScriptEvents : RouterReceives(e)

\* The queue of an outbound channel.
Queue(to) ==
    CASE to = "telnet" -> t_req_rx
      [] to = "script" -> sc_req_rx
      [] to = "tui" -> tui_req_rx

\* A plausible slip in the handlers: the result of a send is dropped
\* (`let _ = tx.send(..).await`), and the handler goes on.
RouterSendIgnoringClosed ==
    /\ r_pc = "sending"
    /\ LET s == Head(r_out) IN
       /\ Closed(s.to) \/ Len(Queue(s.to)) < ChanCap
       /\ t_req_rx' = IF s.to = "telnet" /\ ~Closed(s.to)
                      THEN Append(t_req_rx, s.msg) ELSE t_req_rx
       /\ sc_req_rx' = IF s.to = "script" /\ ~Closed(s.to)
                       THEN Append(sc_req_rx, s.msg) ELSE sc_req_rx
       /\ tui_req_rx' = IF s.to = "tui" /\ ~Closed(s.to)
                        THEN Append(tui_req_rx, s.msg) ELSE tui_req_rx
       /\ r_sent' = IF Closed(s.to) THEN r_sent ELSE Append(r_sent, s)
       /\ r_out' = Tail(r_out)
       /\ r_pc' = IF Tail(r_out) # <<>> THEN "sending"
                  ELSE IF r_ret THEN "done" ELSE "idle"
    /\ UNCHANGED <<r_cur, r_ret, r_count, tui_state>>

\* The next send of the handler: `tx.send(..).await.context(..)?`.  On a
\* closed channel the handler, and with it the router task, ends with the
\* error; after the last send the handler returns and the loop goes on or
\* breaks.
RouterSend ==
    /\ r_pc = "sending"
    /\ LET s == Head(r_out) IN
       IF Closed(s.to)
       THEN /\ r_pc' = "failed"
            /\ UNCHANGED <<r_out, r_sent, t_req_rx, sc_req_rx, tui_req_rx>>
       ELSE /\ Len(Queue(s.to)) < ChanCap
            /\ t_req_rx' = IF s.to = "telnet" THEN Append(t_req_rx, s.msg) ELSE t_req_rx
            /\ sc_req_rx' = IF s.to = "script" THEN Append(sc_req_rx, s.msg) ELSE sc_req_rx
            /\ tui_req_rx' = IF s.to = "tui" THEN Append(tui_req_rx, s.msg) ELSE tui_req_rx
            /\ r_sent' = Append(r_sent, s)
            /\ r_out' = Tail(r_out)
            /\ r_pc' = IF Tail(r_out) # <<>> THEN "sending"
                       ELSE IF r_ret THEN "done" ELSE "idle"
    /\ UNCHANGED <<r_cur, r_ret, r_count, tui_state>>

\* The connection actor takes a request (handle_request_impl, try_recv).
TelnetPeerTakes ==
    /\ t_state = "running"
    /\ t_req_rx # <<>>
    /\ t_req_rx' = Tail(t_req_rx)
    /\ t_state' = IF Head(t_req_rx).type = "Shutdown" THEN "stopped" ELSE t_state
    /\ UNCHANGED <<routerVars, tuiVars, sc_req_rx, sc_state>>

\* The automation actor takes a request (req_rx.recv()).
ScriptPeerTakes ==
    /\ sc_state = "running"
    /\ sc_req_rx # <<>>
    /\ sc_req_rx' = Tail(sc_req_rx)
    /\ sc_state' = IF Head(sc_req_rx).type = "Shutdown" THEN "stopped" ELSE sc_state
    /\ UNCHANGED <<routerVars, tuiVars, t_req_rx, t_state>>

\* The presentation task takes a request (req_rx.recv()).
TuiPeerTakes ==
    /\ tui_state = "running"
    /\ tui_req_rx # <<>>
    /\ tui_req_rx' = Tail(tui_req_rx)
    /\ UNCHANGED <<routerVars, tui_state, t_req_rx, t_state, sc_req_rx, sc_state>>

\* The presentation task ends (`?` on a failed draw or request, or the end
\* of the terminal's event stream): its receiver is dropped.
TuiCloses ==
    /\ tui_state = "running"
    /\ tui_state' = "closed"
    /\ tui_req_rx' = <<>>
    /\ UNCHANGED <<routerVars, t_req_rx, t_state, sc_req_rx, sc_state>>

-----------------------------------------------------------------------------
(***************************************************************************)
(* telnet.rs: the connection actor.  Its loop alternates handle_telnet_recv*)
(* and handle_request.  A handler is the list of what it does, decided by  *)
(* the request and by what the socket answers; each element is one step,   *)
(* since blocking_send waits while the event queue is full and fails once  *)
(* the router has dropped the receiver.  A failed blocking_send always     *)
(* ends the loop: the error it returns is reported by another              *)
(* blocking_send on the same channel, whose failure `?` propagates.        *)
(***************************************************************************)
Op(op, type, data) == [op |-> op, arg |-> Msg(type, data)]
Emit(type, data) == Op("emit", type, data)
SetSock(to) == Op("sock", to, None)
Io(what, data) == Op("io", what, data)

NoStep == [kind |-> "none", req |-> Msg("none", None), sock |-> "none",
           emitted |-> <<>>, io |-> <<>>]

\* telnet_connection, up to the loop
InitTelnet ==
    /\ t_state = "running"
    /\ t_pc = "recv"
    /\ t_sock = "none"
    /\ t_ev_rx = <<>>
    /\ t_ops = <<>>
    /\ t_last = NoStep

\* What telnet.read_timeout can return.
ReadOutcomes ==
    {Msg("Data", d) : d \in Lines}
        \cup {Msg("WillCompress2", r) : r \in {"ok", "fail"}}
        \cup {Msg(k, None) : k \in {"TimedOut", "BadData", "ReadError", "GoAhead",
                                    "Negotiation", "SubCompress2",
                                    "Subnegotiation", "Other"}}

\* TelnetConnection::reset_connection
ResetConnection == << SetSock("none"), Emit("Warning", "Disconnected.") >>

\* handle_telnet_recv on an Err of handle_telnet_recv_impl
RecvFailed(err) == << Emit("Error", err) >> \o ResetConnection

\* TelnetConnection::handle_telnet_recv with handle_telnet_recv_impl, for
\* one answer of the socket
HandleTelnetRecv(o) ==
    CASE o.type = "ReadError" -> RecvFailed("Read from socket")
      [] o.type = "BadData" -> RecvFailed("Decode data to UTF-8 string")
      [] o.type = "Data" -> << Emit("Data", o.data) >>
      [] o.type = "WillCompress2" ->
            << Emit("Info", "Server supports MCCP2"), Io("negotiate", None) >>
                \o (IF o.data = "ok" THEN <<>> ELSE RecvFailed("Negotiate MCCP2"))
      [] o.type = "SubCompress2" ->
            << Io("begin_zlib", None), Emit("Info", "MCCP2 enabled") >>
      [] o.type = "Other" -> << Emit("Unhandled", "event") >>
      [] OTHER -> <<>>

\* The loop starts handle_telnet_recv: without a socket it does nothing,
\* with one it reads.
TelnetRecv ==
    /\ t_state = "running"
    /\ t_pc = "recv"
    /\ t_ops = <<>>
    /\ t_pc' = "request"
    /\ IF t_sock = "none"
       THEN /\ t_ops' = <<>>
            /\ t_last' = [NoStep EXCEPT !.kind = "recv"]
       ELSE \E o \in ReadOutcomes :
               /\ t_ops' = HandleTelnetRecv(o)
               /\ t_last' = [NoStep EXCEPT !.kind = "recv", !.req = o,
                                           !.sock = t_sock,
                                           !.io = << Msg("read", None) >>]
    /\ UNCHANGED <<t_state, t_sock, t_req_rx, t_ev_rx>>

\* A plausible slip in connect: the success is not announced.
ConnectUnannounced(address, ok) ==
    << Emit("Info", "Connecting to " \o address \o "..."), Io("connect", address) >>
        \o (IF ok
            THEN << SetSock("open") >>
            ELSE << Emit("Error", "Connect to server") >>)

\* TelnetConnection::connect, for one answer of Telnet::connect
Connect(address, ok) ==
    << Emit("Info", "Connecting to " \o address \o "..."), Io("connect", address) >>
        \o (IF ok
            THEN << SetSock("open"), Emit("Info", "Connected.") >>
            ELSE << Emit("Error", "Connect to server") >>)

\* TelnetConnection::handle_request with handle_request_impl, for one
\* request and one answer of the socket
HandleRequestImpl(request, sock, ok) ==
    CASE request.type = "Connect" -> Connect(request.data, ok)
      [] request.type = "Send" ->
            IF sock = "open"
            THEN IF ok
                 THEN << Io("write", request.data), Io("write", "\n") >>
                 ELSE << Io("write", request.data),
                         Emit("Error", "Write data to socket") >>
            ELSE << Emit("Error", "Connection is closed") >>
      [] request.type = "Disconnect" ->
            IF sock = "open" THEN << Op("break", "break", None) >>
            ELSE << Emit("Error", "Connection is closed") >>
      [] request.type = "Shutdown" -> << Op("break", "break", None) >>

\* The loop starts handle_request: try_recv finds nothing, or a request.
TelnetHandleRequest ==
    /\ t_state = "running"
    /\ t_pc = "request"
    /\ t_ops = <<>>
    /\ t_pc' = "recv"
    /\ IF t_req_rx = <<>>
       THEN /\ t_ops' = <<>>
            /\ t_last' = [NoStep EXCEPT !.kind = "request"]
            /\ UNCHANGED t_req_rx
       ELSE /\ t_req_rx' = Tail(t_req_rx)
            /\ \E ok \in BOOLEAN :
                  t_ops' = HandleRequestImpl(Head(t_req_rx), t_sock, ok)
            /\ t_last' = [NoStep EXCEPT !.kind = "request",
                                        !.req = Head(t_req_rx),
                                        !.sock = t_sock]
    /\ UNCHANGED <<t_state, t_sock, t_ev_rx>>

\* The router has dropped ev_rx.
EventsClosed == r_pc \in {"done", "failed"}

\* The next step of the running handler.
TelnetStep ==
    /\ t_state = "running"
    /\ t_ops # <<>>
    /\ LET o == Head(t_ops) IN
       CASE o.op = "emit" ->
              IF EventsClosed
              THEN /\ t_state' = "failed"
                   /\ t_ops' = <<>>
                   /\ UNCHANGED <<t_sock, t_ev_rx, t_last>>
              ELSE /\ Len(t_ev_rx) < ChanCap
                   /\ t_ev_rx' = Append(t_ev_rx, o.arg)
                   /\ t_last' = [t_last EXCEPT !.emitted = Append(@, o.arg)]
                   /\ t_ops' = Tail(t_ops)
                   /\ UNCHANGED <<t_state, t_sock>>
         [] o.op = "sock" ->
              /\ t_sock' = o.arg.type
              /\ t_ops' = Tail(t_ops)
              /\ UNCHANGED <<t_state, t_ev_rx, t_last>>
         [] o.op = "io" ->
              /\ t_last' = [t_last EXCEPT !.io = Append(@, o.arg)]
              /\ t_ops' = Tail(t_ops)
              /\ UNCHANGED <<t_state, t_sock, t_ev_rx>>
         [] o.op = "break" ->
              /\ t_state' = "stopped"
              /\ t_ops' = <<>>
              /\ UNCHANGED <<t_sock, t_ev_rx, t_last>>
    /\ UNCHANGED <<t_pc, t_req_rx>>

\* What the router does to the actor's channels.  It sends a request from
\* one of its handlers.
RouterSendsRequest ==
    /\ r_pc = "idle"
    /\ Len(t_req_rx) < ChanCap
    /\ \E m \in {Msg("Connect", "host:port")} \cup {Msg("Send", d) : d \in Texts} :
          t_req_rx' = Append(t_req_rx, m)
    /\ UNCHANGED <<t_state, t_pc, t_sock, t_ev_rx, t_ops, t_last, r_pc>>

\* It receives the actor's next event in select!.
RouterTakesTelnetEvent ==
    /\ r_pc = "idle"
    /\ t_ev_rx # <<>>
    /\ t_ev_rx' = Tail(t_ev_rx)
    /\ UNCHANGED <<t_state, t_pc, t_sock, t_req_rx, t_ops, t_last, r_pc>>

\* It handles quit: the Shutdown request is its last to the actor.
RouterSendsShutdown ==
    /\ r_pc = "idle"
    /\ Len(t_req_rx) < ChanCap
    /\ t_req_rx' = Append(t_req_rx, Msg("Shutdown", None))
    /\ r_pc' = "sending"
    /\ UNCHANGED <<t_state, t_pc, t_sock, t_ev_rx, t_ops, t_last>>

\* Its task ends, after quit or by a failed send to another actor: ev_rx
\* is dropped with what it holds.
RouterExits ==
    /\ r_pc \in {"idle", "sending"}
    /\ r_pc' = IF r_pc = "sending" THEN "done" ELSE "failed"
    /\ t_ev_rx' = <<>>
    /\ UNCHANGED <<t_state, t_pc, t_sock, t_req_rx, t_ops, t_last>>

\* The telnet_rx arm of the router's select!: the next event of the
\* connection actor is received and handle_telnet_event starts.
RouterReceivesTelnetEvent ==
    /\ t_ev_rx # <<>>
    /\ RouterReceives(Event("telnet", Head(t_ev_rx).type, Head(t_ev_rx).data))
    /\ t_ev_rx' = Tail(t_ev_rx)

\* The steps of the router, of the connection actor and of the presentation
\* task, with what goes through the channels recorded in order.
RouterSendRecorded ==
    /\ RouterSend
    /\ ord' = IF t_req_rx' # t_req_rx
              THEN [ord EXCEPT !.sent = Append(@, Head(r_out).msg)]
              ELSE ord

TelnetHandleRequestRecorded ==
    /\ TelnetHandleRequest
    /\ ord' = IF t_req_rx # <<>>
              THEN [ord EXCEPT !.taken = Append(@, Head(t_req_rx))]
              ELSE ord

TelnetStepRecorded ==
    /\ TelnetStep
    /\ ord' = IF t_ev_rx' # t_ev_rx
              THEN [ord EXCEPT !.emitted = Append(@, Head(t_ops).arg)]
              ELSE ord

-----------------------------------------------------------------------------
(***************************************************************************)
(* tui/layout.rs and the set_layout capability of script.rs.  The argument *)
(* of set_layout is a tree of maps: a node has a type, a scroll pane may   *)
(* have an id (0: none), a container has children and constraints, which   *)
(* parse ("ok") or do not ("bad").                                         *)
(***************************************************************************)
Node(type, id, children, cons) ==
    [type |-> type, id |-> id, children |-> children, cons |-> cons]

Leaves ==
    {Node("input", 0, <<>>, "ok"), Node("bogus", 0, <<>>, "ok")}
        \cup {Node("scroll", id, <<>>, "ok") : id \in 0..2}

SeqsUpTo(S, n) == UNION {[1..k -> S] : k \in 0..n}

Stacks ==
    {Node(type, 0, children, cons) :
        type \in {"vstack", "hstack"},
        children \in SeqsUpTo(Leaves, MaxChildren),
        cons \in {"ok", "bad"}}

\* The arguments set_layout is called with: a pane, a container of panes,
\* or a container of a container and a pane.
LayoutSpecs ==
    Leaves \cup Stacks
        \cup {Node("vstack", 0, <<a, b>>, "ok") : a \in Stacks, b \in Leaves}

\* TuiWrapper::default_layout
DefaultLayout ==
    Node("vstack", 0,
         << Node("scroll", 1, <<>>, "ok"), Node("input", 0, <<>>, "ok") >>, "ok")

NoCall == [spec |-> DefaultLayout, result |-> "none"]

\* TuiWrapper::new, and no script has called set_layout
InitLayout ==
    /\ tui_layout = DefaultLayout
    /\ lay_call = NoCall

\* LayoutElement::from succeeds: every type is known and the children and
\* the constraints of every container parse.
RECURSIVE From(_)
From(layout) ==
    CASE layout.type \in {"vstack", "hstack"} ->
            /\ \A i \in 1..Len(layout.children) : From(layout.children[i])
            /\ layout.cons = "ok"
      [] layout.type \in {"scroll", "input"} -> TRUE
      [] OTHER -> FALSE

\* LayoutElement::input(..).is_some(): find_map over the children
RECURSIVE HasInput(_)
HasInput(layout) ==
    CASE layout.type \in {"vstack", "hstack"} ->
            \E i \in 1..Len(layout.children) : HasInput(layout.children[i])
      [] layout.type = "input" -> TRUE
      [] OTHER -> FALSE

\* LayoutElement::pane(pane_id).is_some()
RECURSIVE HasPane(_, _)
HasPane(layout, pane_id) ==
    CASE layout.type \in {"vstack", "hstack"} ->
            \E i \in 1..Len(layout.children) : HasPane(layout.children[i], pane_id)
      [] layout.type = "scroll" -> layout.id # 0 /\ layout.id = pane_id
      [] OTHER -> FALSE

\* The closure registered as "set_layout": Ok, with the SetLayout event
\* sent, or an error.
SetLayout(layout) == From(layout) /\ HasInput(layout) /\ HasPane(layout, 1)

\* A script calls set_layout(spec); a rejected call fails the script (the
\* Error event of its failure is the thread's, see ScriptFails).  One call
\* is followed in a run of the model.
ScriptCallsSetLayout ==
    \E spec \in LayoutSpecs :
        /\ lay_call = NoCall
        /\ IF SetLayout(spec)
           THEN /\ Len(sc_ev_rx) < ChanCap
                /\ sc_ev_rx' = Append(sc_ev_rx, Msg("SetLayout", spec))
                /\ lay_call' = [spec |-> spec, result |-> "emitted"]
                /\ UNCHANGED <<tui_req_rx, tui_layout>>
           ELSE /\ lay_call' = [spec |-> spec, result |-> "failed"]
                /\ UNCHANGED <<sc_ev_rx, tui_req_rx, tui_layout>>

\* The router handles the SetLayout event (handle_script_event).
RouterForwardsSetLayout ==
    /\ sc_ev_rx # <<>>
    /\ Len(tui_req_rx) < ChanCap
    /\ LET e == Event("script", Head(sc_ev_rx).type, Head(sc_ev_rx).data) IN
          tui_req_rx' = Append(tui_req_rx, AppHandleScriptEvent(e)[1].msg)
    /\ sc_ev_rx' = Tail(sc_ev_rx)
    /\ UNCHANGED <<tui_layout, lay_call>>

\* TuiWrapper::process_request: SetLayout replaces the layout, a Print
\* request leaves it alone.
TuiProcessRequest ==
    /\ tui_req_rx # <<>>
    /\ tui_req_rx' = Tail(tui_req_rx)
    /\ tui_layout' = IF Head(tui_req_rx).type = "SetLayout"
                     THEN Head(tui_req_rx).data ELSE tui_layout
    /\ UNCHANGED <<sc_ev_rx, lay_call>>

TuiProcessRequestRecorded ==
    /\ TuiProcessRequest
    /\ ord' = [ord EXCEPT !.shown = Append(@, Head(tui_req_rx))]

\* The input panes of a layout.
RECURSIVE Inputs(_)
Inputs(layout) ==
    IF layout.type = "input" THEN 1
    ELSE IF layout.children = <<>> THEN 0
    ELSE Inputs(layout.children[1])
            + Inputs([layout EXCEPT !.children = Tail(@)])

\* C18: set_layout(spec) emits a SetLayout event only when the parsed
\* layout has exactly one input pane and a scroll pane with identifier 1;
\* for any other spec the call fails and emits nothing, so that the
\* presentation layer never gets another layout.
C18_SetLayoutValidates ==
    LET Valid(l) == From(l) /\ Inputs(l) = 1 /\ HasPane(l, 1) IN
    /\ lay_call.result = "emitted" => Valid(lay_call.spec)
    /\ lay_call.result = "failed" => ~Valid(lay_call.spec)
    /\ \A i \in 1..Len(sc_ev_rx) : Valid(sc_ev_rx[i].data)
    /\ Valid(tui_layout)

-----------------------------------------------------------------------------
(***************************************************************************)
(* Properties of the router.                                               *)
(***************************************************************************)
\* The handler of the current event has returned Ok.
HandlerReturned == r_cur # NoEvent /\ r_pc \in {"idle", "done"}

\* The requests the handler has sent to one actor, in order.
RECURSIVE SentTo(_, _)
SentTo(sent, to) ==
    IF sent = <<>> THEN <<>>
    ELSE IF Head(sent).to = to
         THEN <<Head(sent).msg>> \o SentTo(Tail(sent), to)
         ELSE SentTo(Tail(sent), to)

IsPrefix(a, b) == Len(a) <= Len(b) /\ a = SubSeq(b, 1, Len(a))

\* What no action of the router specification changes.
RouterFrame ==
    UNCHANGED <<ringVars, sc_i_rx, sc_ev_rx, expects, th, sc_last,
                t_pc, t_sock, t_ev_rx, t_ops, t_last, layoutVars, orderVars, inputVars>>

\* The router takes an event out of select!.
RouterRoutes ==
    /\ RouteTelnetEvent \/ RouteTuiEvent \/ RouteScriptEvent
    /\ UNCHANGED <<t_state, sc_state>>
    /\ RouterFrame

BothShutdowns ==
    << SendTo("telnet", "Shutdown", None), SendTo("script", "Shutdown", None) >>

\* C6: on a quit event the router sends Shutdown to the connection actor and
\* Shutdown to the automation actor before its loop exits: once the quit
\* handler is no longer sending, the loop has exited normally with exactly
\* these two requests sent (never with one or none, never by an error), the
\* loop exits normally on quit only, and after quit no further event is
\* routed.
C6_QuitSendsBothShutdowns ==
    /\ r_cur.type = "Quit" =>
          /\ r_pc \in {"sending", "done"}
          /\ IsPrefix(r_sent, BothShutdowns)
          /\ ~ENABLED RouterRoutes
    /\ r_pc = "done" => r_cur.type = "Quit" /\ r_sent = BothShutdowns

\* The loop has exited on a quit that followed other events, both requests
\* sent, the connection actor already stopped.
C6_Witness ==
    /\ r_pc = "done"
    /\ r_cur = Event("tui", "Quit", None)
    /\ r_sent = BothShutdowns
    /\ r_count > 1
    /\ t_state = "stopped"
    /\ sc_req_rx # <<>> /\ sc_req_rx[Len(sc_req_rx)] = Msg("Shutdown", None)

\* C7: for a presentation-layer Send(text) the router sends a connection
\* Send(text) and a presentation echo carrying text; for SendSecret(text) a
\* connection Send(text) and a presentation echo carrying the mask.
C7_SendIsEchoed ==
    (HandlerReturned /\ r_cur.from = "tui" /\ r_cur.type \in {"Send", "SendSecret"}) =>
        /\ SentTo(r_sent, "telnet") = << Msg("Send", r_cur.data) >>
        /\ SentTo(r_sent, "tui") =
              << Msg("PrintUserInput",
                     IF r_cur.type = "Send" THEN r_cur.data ELSE Mask) >>

\* C8: for a send-secret event, from the presentation layer or from a script,
\* the secret text goes to the connection actor only: every request the
\* handler sends to the presentation layer is the echo of the mask, nothing
\* is sent to the automation actor, no request queued for the presentation
\* layer or the automation actor carries a secret, and the presentation
\* requests are those the handler makes for any other secret.
C8_SecretIsMasked ==
    /\ \A i \in 1..Len(tui_req_rx) : tui_req_rx[i].data \notin Secrets
    /\ \A i \in 1..Len(sc_req_rx) : sc_req_rx[i].data \notin Secrets
    /\ r_cur.type = "SendSecret" =>
          /\ IsPrefix(SentTo(r_sent, "tui"), << Msg("PrintUserInput", Mask) >>)
          /\ SentTo(r_sent, "script") = <<>>
          /\ IsPrefix(SentTo(r_sent, "telnet"), << Msg("Send", r_cur.data) >>)
          /\ \A s2 \in Secrets :
                /\ IsPrefix(SentTo(r_sent, "tui"),
                            SentTo(Sends([r_cur EXCEPT !.data = s2]), "tui"))
                /\ HandlerReturned =>
                      SentTo(r_sent, "tui")
                          = SentTo(Sends([r_cur EXCEPT !.data = s2]), "tui")

\* A script's secret has been routed: the connection actor has it, the
\* presentation layer has the mask in its queue.
C8_Witness ==
    /\ HandlerReturned
    /\ r_cur = Event("script", "SendSecret", "pw2")
    /\ r_sent = << SendTo("telnet", "Send", "pw2"),
                   SendTo("tui", "PrintUserInput", Mask) >>
    /\ tui_req_rx # <<>> /\ tui_req_rx[Len(tui_req_rx)] = Msg("PrintUserInput", Mask)

\* C9: for a connection Data(payload) event the router sends a presentation
\* Print and an automation Output with the same payload, whatever the
\* automation actor is doing; while both channels are open neither is sent
\* without the other: the handler returns only with both sent, in that
\* order, it ends early only on a closed channel, and an Output is never
\* sent for anything else or before the Print.
C9_DataIsPrintedAndMirrored ==
    /\ (r_cur.from = "telnet" /\ r_cur.type = "Data") =>
          /\ IsPrefix(r_sent, << SendTo("tui", "Print", r_cur.data),
                                 SendTo("script", "Output", r_cur.data) >>)
          /\ HandlerReturned => Len(r_sent) = 2
          /\ r_pc = "failed" => Closed(Head(r_out).to)
    /\ \A i \in 1..Len(r_sent) :
          r_sent[i].msg.type \in {"Print", "Output"} =>
              r_cur.from = "telnet" /\ r_cur.type = "Data"

\* Output has been routed with no script started (the request queue held no
\* ExecuteScriptFile) and the Output is queued for the automation actor.
C9_Witness ==
    /\ HandlerReturned
    /\ r_cur = Event("telnet", "Data", "y")
    /\ r_sent = << SendTo("tui", "Print", "y"), SendTo("script", "Output", "y") >>
    /\ sc_req_rx # <<>> /\ sc_req_rx[Len(sc_req_rx)] = Msg("Output", "y")
    /\ sc_state = "running"

-----------------------------------------------------------------------------
(***************************************************************************)
(* Properties of the connection actor.                                     *)
(***************************************************************************)
\* handle_request has finished, or failed, on a Send request taken while
\* the actor had no socket.
SendWhileDisconnectedDone ==
    /\ t_last.kind = "request"
    /\ t_last.req.type = "Send"
    /\ t_last.sock = "none"
    /\ t_ops = <<>>

\* C10: a Send request processed while the actor is Disconnected produces
\* exactly one Error event, performs no socket I/O, leaves the actor
\* Disconnected and does not terminate the actor loop.
C10_SendWhileDisconnected ==
    SendWhileDisconnectedDone =>
        /\ Len(t_last.emitted) = 1
        /\ t_last.emitted[1].type = "Error"
        /\ t_last.io = <<>>
        /\ t_sock = "none"
        /\ t_state = "running"

\* The handler the loop started last has returned, or has ended the loop.
TelnetHandlerDone == t_last.kind # "none" /\ t_ops = <<>>

\* handle_telnet_recv has ended on a read or decode failure of the socket.
RecvFailureDone ==
    /\ TelnetHandlerDone
    /\ t_last.kind = "recv"
    /\ t_last.req.type \in {"ReadError", "BadData"}

\* handle_request has ended on a Send request.
SendDone ==
    /\ TelnetHandlerDone
    /\ t_last.kind = "request"
    /\ t_last.req.type = "Send"

Types(events) == [i \in 1..Len(events) |-> events[i].type]

\* C11: a read or decode failure while Connected makes the actor emit exactly
\* one Error event followed by exactly one Warning "Disconnected." event,
\* drop the socket and become Disconnected; from then on a Send yields an
\* Error event (and reaches no socket) until a Connect request has opened a
\* socket, after which a Send writes to the socket again.
C11_ReadFailureResets ==
    /\ RecvFailureDone =>
          /\ Types(t_last.emitted) = << "Error", "Warning" >>
          /\ t_last.emitted[2] = Msg("Warning", "Disconnected.")
          /\ t_sock = "none"
          /\ t_state = "running"
    /\ (SendDone /\ t_last.sock = "none") =>
          /\ Types(t_last.emitted) = << "Error" >>
          /\ t_last.io = <<>>
    /\ (SendDone /\ t_last.sock = "open") =>
          /\ t_last.io # <<>>
          /\ t_last.io[1] = Msg("write", t_last.req.data)
    /\ (t_ops # <<>> /\ Head(t_ops) = SetSock("open")) =>
          t_last.req.type = "Connect"

\* C12: the actor's loop ends only by processing a Shutdown request or a
\* Disconnect request while Connected; a read or decode failure, a failed
\* Connect, a Send while Disconnected or a failure to deliver an event does
\* not end it.
C12_LoopEndsOnlyOnRequest ==
    t_state # "running" =>
        /\ t_state = "stopped"
        /\ t_last.kind = "request"
        /\ \/ t_last.req.type = "Shutdown"
           \/ t_last.req.type = "Disconnect" /\ t_last.sock = "open"

\* A Shutdown request waits in the actor's request queue.
ShutdownEnqueued ==
    \E i \in 1..Len(t_req_rx) : t_req_rx[i].type = "Shutdown"

\* C13: once a Shutdown request is enqueued, the actor eventually dequeues
\* it and ends its loop by it, Connected or Disconnected, given that the
\* actor's thread keeps running and every socket read returns.
C13_ShutdownIsProcessed ==
    ShutdownEnqueued ~> (t_state = "stopped" /\ t_last.req.type = "Shutdown")

\* handle_request has ended on a Connect request taken without a socket.
ConnectWhileDisconnectedDone ==
    /\ TelnetHandlerDone
    /\ t_last.kind = "request"
    /\ t_last.req.type = "Connect"
    /\ t_last.sock = "none"

Connecting == Msg("Info", "Connecting to host:port...")
Connected == Msg("Info", "Connected.")

\* C14: a Connect request processed while Disconnected first emits Info
\* "Connecting..."; if the socket opens the actor is Connected and emits Info
\* "Connected." after it; if it does not, the actor stays Disconnected,
\* emits exactly one Error event and no "Connected.", and attempts no other
\* connection until another Connect request is taken.
C14_ConnectWhileDisconnected ==
    /\ ConnectWhileDisconnectedDone =>
          /\ t_last.io = << Msg("connect", "host:port") >>
          /\ IF t_sock = "open"
             THEN t_last.emitted = << Connecting, Connected >>
             ELSE /\ Len(t_last.emitted) = 2
                  /\ t_last.emitted[1] = Connecting
                  /\ t_last.emitted[2].type = "Error"
          /\ t_state = "running"
    /\ \A i \in 1..Len(t_last.io) :
          t_last.io[i].type = "connect" => t_last.req.type = "Connect"
    /\ \A i \in 1..Len(t_ops) :
          (t_ops[i].op = "io" /\ t_ops[i].arg.type = "connect")
              => t_last.req.type = "Connect"

\* A script thread is suspended in expect and its waiter is not resolved.
Suspended(t) == th[t].st = "wait" /\ th[t].tx = "live"

\* The Output just handled left a pending waiter unmatched.
UnmatchedBefore ==
    \E i \in 1..Len(sc_last.expects) :
        ~IsMatch(sc_last.expects[i].pattern, sc_last.data)

\* C19: while a script is suspended in expect, the actor takes the next
\* Output and the next Expect event of its queues, another running script
\* can register a waiter, and the router takes the actor's events; and an
\* Output handled while an unmatched waiter was suspended leaves the actor
\* running, to handle the Outputs that follow.
C19_SuspendedScriptBlocksOnlyItself ==
    /\ (\E t \in Threads : Suspended(t)) =>
          /\ (sc_req_rx # <<>> /\ Head(sc_req_rx).type = "Output")
                => ENABLED HandleOutput
          /\ (/\ sc_i_rx # <<>>
              /\ Compiles(Head(sc_i_rx).pattern) \/ Len(sc_ev_rx) < ChanCap)
                => ENABLED HandleScriptEvent
          /\ ((\E u \in Threads : th[u].st = "run") /\ Len(sc_i_rx) < ChanCap)
                => ENABLED ScriptCallsExpect
          /\ sc_ev_rx # <<>> => ENABLED ScriptEventTaken
    /\ (HandledOutput /\ UnmatchedBefore) => sc_state = "running"

\* handle_telnet_recv has returned, with the event channel open, after a
\* protocol event that is neither data, a timeout, the compression offer or
\* activation, nor the end-of-prompt signal.
OtherEventDone ==
    /\ TelnetHandlerDone
    /\ t_state = "running"
    /\ t_last.kind = "recv"
    /\ t_last.req.type \in {"Negotiation", "Subnegotiation", "Other"}

\* C23: while Connected, a protocol event of the peer that is none of those
\* the actor recognizes, a negotiation or subnegotiation of another option
\* included, is surfaced as exactly one Unhandled event and no Error
\* event, and the actor stays Connected.
C23_OtherEventsAreUnhandled ==
    OtherEventDone =>
        /\ Types(t_last.emitted) = << "Unhandled" >>
        /\ t_sock = "open"

-----------------------------------------------------------------------------
(***************************************************************************)
(* Properties of the router running with the connection actor.             *)
(***************************************************************************)
\* The router's handler waits in `tx.send(..).await`: the queue is full.
RouterBlockedOn(to) ==
    /\ r_pc = "sending"
    /\ Head(r_out).to = to
    /\ ~Closed(to)
    /\ Len(Queue(to)) >= ChanCap

\* The connection actor waits in blocking_send: its event queue is full.
TelnetBlocked ==
    /\ t_state = "running"
    /\ t_ops # <<>>
    /\ Head(t_ops).op = "emit"
    /\ ~EventsClosed
    /\ Len(t_ev_rx) >= ChanCap

\* C20: no state is reached in which the router, handling an event, waits
\* on the full request channel of the connection actor while that actor
\* waits on its full event channel, which only the router drains.
C20_NoCircularWait == ~(RouterBlockedOn("telnet") /\ TelnetBlocked)

\* No request is added to an outbound channel in this step.
NoRequestSent ==
    /\ Len(t_req_rx') <= Len(t_req_rx)
    /\ Len(sc_req_rx') <= Len(sc_req_rx)
    /\ Len(tui_req_rx') <= Len(tui_req_rx)

\* The handler is at a send whose channel is closed.
SendOnClosed == r_pc = "sending" /\ Closed(Head(r_out).to)

\* C22: the step the router makes at a send on a closed channel ends its
\* task with the error, with nothing sent; and once its task has ended so
\* it makes no other send of the event and routes no other event.
C22_ClosedSendStopsRouter ==
    [][/\ (SendOnClosed /\ routerVars' # routerVars) =>
             /\ r_pc' = "failed"
             /\ r_sent' = r_sent /\ r_out' = r_out /\ r_count' = r_count
             /\ NoRequestSent
       /\ r_pc = "failed" => (routerVars' = routerVars /\ NoRequestSent)]_vars

\* The router has failed after the first send of a handler.
C22_Witness == r_pc = "failed" /\ r_sent # <<>> /\ r_out # <<>>

-----------------------------------------------------------------------------
(***************************************************************************)
(* Properties of the order of the messages.                                *)
(***************************************************************************)
\* The presentation request handle_telnet_event makes of an event.
TuiRequestOf(ev) == AppHandleTelnetEvent(Event("telnet", ev.type, ev.data))[1].msg

\* The presentation requests of the events emitted so far, in their order.
RequestsOfEmitted ==
    [i \in 1..Len(ord.emitted) |-> TuiRequestOf(ord.emitted[i])]

FromTelnet(m) == \E i \in 1..Len(ord.emitted) : m = TuiRequestOf(ord.emitted[i])

\* Position i of what the presentation task has processed is server data.
ShowsData(i) == ord.shown[i].type = "Print" /\ ord.shown[i].data \in Lines

\* Position j is the announcement of the connection that is open at i.
AnnouncedAt(j, i) ==
    /\ j < i
    /\ ord.shown[j] = Msg("PrintInfo", "Connected.")
    /\ \A k \in (j + 1)..(i - 1) : ord.shown[k] # Msg("PrintWarning", "Disconnected.")

-----------------------------------------------------------------------------
(***************************************************************************)
(* Properties of the line editor.  in_op holds the operation called last   *)
(* and the editor it was called on.                                        *)
(***************************************************************************)
\* The operation `name` was called last, in the state `mode`.
WasCalled(name, mode) == in_op.name = name /\ in_op.state.mode = mode

\* The logical indices of the history h whose entry starts with prefix.
MatchingIndices(h, prefix) ==
    {i \in 0..(Size(h) - 1) : Get(h, i) # None /\ StartsWith(Get(h, i), prefix)}

Maximum(S) == CHOOSE m \in S : \A k \in S : k <= m
Minimum(S) == CHOOSE m \in S : \A k \in S : m <= k

\* C24: up in Typing{text, _} leaves the editor as it is if no entry of
\* the history starts with text (an empty history included); otherwise the
\* editor is in HistorySearch{text, index} with index the newest index
\* whose entry starts with text, the line shown is that entry, text first
\* and the rest as completion, and the cursor is after text.
C24_UpFromTyping ==
    WasCalled("up", "Typing") =>
        LET text  == in_op.state.buffer
            found == MatchingIndices(in_op.history, text)
        IN  /\ history = in_op.history
            /\ IF found = {}
               THEN in_state = in_op.state
               ELSE /\ in_state = HistorySearch(text, Maximum(found))
                    /\ LET line == AsLine(in_state, history) IN
                       /\ line.input \o line.completion
                             = Get(history, Maximum(found))
                       /\ text # "" =>
                             /\ line.input = text
                             /\ CursorPosition(in_state, history) = CharCount(text)

\* C24, the case reached: the entry found is longer than the text typed,
\* and a newer entry does not start with that text.
C24_Witness ==
    /\ WasCalled("up", "Typing")
    /\ in_op.state.buffer # ""
    /\ in_state.mode = "HistorySearch"
    /\ AsLine(in_state, history).completion # ""
    /\ in_state.index < Size(history) - 1

\* C25: right and end in HistorySearch{query, idx} leave the editor in
\* Typing with the whole entry at idx as text and the cursor at its
\* character count, whatever the query; in Typing, right moves the cursor
\* by one at most up to the character count of the text, and end puts it
\* at that count.
C25_RightAndEndCommit ==
    /\ (in_op.name \in {"right", "end"} /\ in_op.state.mode = "HistorySearch") =>
          LET entry == Get(in_op.history, in_op.state.index) IN
          /\ in_state = Typing(entry, CharCount(entry))
          /\ history = in_op.history
    /\ WasCalled("right", "Typing") =>
          LET text   == in_op.state.buffer
              cursor == in_op.state.cursor_position
          IN  /\ in_state = Typing(text, IF cursor < CharCount(text)
                                         THEN cursor + 1 ELSE cursor)
              /\ in_state.cursor_position <= CharCount(text)
    /\ WasCalled("end", "Typing") =>
          in_state = Typing(in_op.state.buffer, CharCount(in_op.state.buffer))

\* C25, the case reached: right in a search whose query is not empty and
\* whose entry is longer than the query.
C25_Witness ==
    /\ WasCalled("right", "HistorySearch")
    /\ in_op.state.search_term # ""
    /\ in_state.mode = "Typing"
    /\ in_state.buffer # in_op.state.search_term
    /\ in_state.cursor_position > CharCount(in_op.state.search_term)

\* get_and_submit was called last and has returned a line that the history
\* held already.
ResubmittedLine ==
    /\ in_op.name = "get_and_submit"
    /\ Occurs(Contents(in_op.history), in_op.ret)

\* C26: get_and_submit of a line that is in the history already keeps the
\* length of the history, makes the line its newest entry and keeps the
\* other entries in their order, so that a line submitted twice is held
\* once.
C26_ResubmitPromotes ==
    ResubmittedLine =>
        LET old == Contents(in_op.history)
            k   == LastIndexOf(old, in_op.ret)
        IN  /\ Size(history) = Size(in_op.history)
            /\ Contents(history) = Append(RemoveAt(old, k), in_op.ret)
            /\ \A i, j \in 1..Len(Contents(history)) :
                  Contents(history)[i] = Contents(history)[j] => i = j

\* C26, the case reached: the line was an older entry of a full history
\* and has moved to the newest place.
C26_Witness ==
    /\ ResubmittedLine
    /\ IsFull(in_op.history)
    /\ Contents(history) # Contents(in_op.history)
    /\ Get(history, Size(history) - 1) = in_op.ret

\* C27: get_and_clear leaves the history as it was, slots, front and back,
\* whatever the state and the content of the editor, and leaves the editor
\* in Typing with an empty text and the cursor at 0.
C27_ClearKeepsHistory ==
    in_op.name = "get_and_clear" =>
        /\ history = in_op.history
        /\ in_state = EmptyTyping

\* C27, the case reached: get_and_clear has returned a line that is not
\* empty and that the history does not hold.
C27_Witness ==
    /\ in_op.name = "get_and_clear"
    /\ in_op.ret # ""
    /\ ~Occurs(Contents(history), in_op.ret)
    /\ ~IsEmpty(history)

\* C28: get_and_clear returns the buffer in Typing and, in HistorySearch,
\* the query if it is not empty and the whole matched entry otherwise: the
\* value get_and_submit returns from the same state.
C28_ClearReturnsDisplayed ==
    in_op.name = "get_and_clear" =>
        /\ in_op.ret = GetAndSubmit(in_op.state, in_op.history).result
        /\ in_op.state.mode = "Typing" => in_op.ret = in_op.state.buffer
        /\ (in_op.state.mode = "HistorySearch" /\ in_op.state.search_term = "") =>
              in_op.ret = Get(in_op.history, in_op.state.index)

\* The number of the entries of the history h equal to the line.
Copies(h, line) ==
    Cardinality({i \in 1..Len(Contents(h)) : Contents(h)[i] = line})

\* C29: get_and_submit returns the buffer in Typing and, in HistorySearch,
\* the query if it is not empty and the whole matched entry otherwise; a
\* value returned that is not empty is afterwards the newest entry of the
\* history and is held once; an empty buffer submitted in Typing leaves the
\* history as it was; the editor is left in Typing with an empty text and
\* the cursor at 0.
C29_SubmitReturnsAndPromotes ==
    in_op.name = "get_and_submit" =>
        /\ in_op.ret =
              IF in_op.state.mode = "Typing" THEN in_op.state.buffer
              ELSE IF in_op.state.search_term # "" THEN in_op.state.search_term
              ELSE Get(in_op.history, in_op.state.index)
        /\ in_op.ret # "" =>
              /\ Get(history, Size(history) - 1) = in_op.ret
              /\ Copies(history, in_op.ret) = 1
        /\ (in_op.state.mode = "Typing" /\ in_op.state.buffer = "") =>
              history = in_op.history
        /\ in_state = Typing("", 0)

\* C29, the case reached: the query was empty, and the entry matched, an
\* older one, was returned and has become the newest.
C29_Witness ==
    /\ WasCalled("get_and_submit", "HistorySearch")
    /\ in_op.state.search_term = ""
    /\ in_op.state.index < Size(in_op.history) - 1
    /\ in_op.ret = Get(in_op.history, in_op.state.index)
    /\ in_op.ret # ""
    /\ Get(history, Size(history) - 1) = in_op.ret

\* The indices newer than index whose entry of h starts with prefix.
NewerMatches(h, prefix, index) ==
    {i \in MatchingIndices(h, prefix) : i > index}

\* C30: down in HistorySearch{query, idx} leaves to Typing{query, number
\* of characters of query} if idx is the newest index or no newer entry
\* starts with query, and moves otherwise to the nearest newer index whose
\* entry starts with query; down in Typing changes nothing; the entry shown
\* after down starts with query.
C30_DownFromSearch ==
    in_op.name = "down" =>
        LET st    == in_op.state
            newer == NewerMatches(in_op.history, st.search_term, st.index)
        IN  /\ history = in_op.history
            /\ st.mode = "Typing" => in_state = st
            /\ st.mode = "HistorySearch" =>
                  in_state =
                      IF st.index = Size(in_op.history) - 1 \/ newer = {}
                      THEN Typing(st.search_term, CharCount(st.search_term))
                      ELSE HistorySearch(st.search_term, Minimum(newer))
            /\ in_state.mode = "HistorySearch" =>
                  /\ Get(history, in_state.index) # None
                  /\ StartsWith(Get(history, in_state.index),
                                in_state.search_term)

\* C30, the case reached: a newer entry exists and does not start with the
\* query, and down has left to Typing with the query as the text.
C30_Witness ==
    /\ WasCalled("down", "HistorySearch")
    /\ in_op.state.search_term # ""
    /\ in_op.state.index < Size(in_op.history) - 1
    /\ in_state = Typing(in_op.state.search_term,
                         CharCount(in_op.state.search_term))

\* C31: in HistorySearch{query, idx} the index is a logical index of the
\* history, below its size and of an occupied slot, and the entry there
\* starts with the query, so that the completion shown by as_line is a
\* slice of the entry and never a panic.
C31_SearchIndexIsValid ==
    in_state.mode = "HistorySearch" =>
        /\ in_state.index < Size(history)
        /\ Get(history, in_state.index) # None
        /\ StartsWith(Get(history, in_state.index), in_state.search_term)
        /\ AsLine(in_state, history).completion # Panic
        /\ AsLine(in_state, history).input
              \o AsLine(in_state, history).completion
           = Get(history, in_state.index)

\* C31, the case reached: a search with a query that is a proper prefix of
\* an entry that is not the newest, reached by a second up.
C31_Witness ==
    /\ WasCalled("up", "HistorySearch")
    /\ in_state.mode = "HistorySearch"
    /\ in_state.search_term # ""
    /\ in_state.index < in_op.state.index
    /\ AsLine(in_state, history).completion # ""

\* The logical indices from lo to hi of the buffer r whose element
\* satisfies the predicate given as the set sat.
Satisfying(r, sat, lo, hi) == {i \in lo..hi : Get(r, i) \in sat}

\* C32: on a buffer of logical size n, partially filled or full and
\* wrapped, find_forwards(p, s) with s < n returns the largest index i <= s
\* whose element satisfies p, and find_backwards(p, s) with s <= n the
\* smallest index i with s <= i < n whose element satisfies p; each returns
\* none if there is no such index, and never an index of n or more.
C32_FindsNearest ==
    LET n == Size(rb) IN
    \A sat \in SUBSET Values :
        /\ \A s \in 0..(n - 1) :
              LET m == Satisfying(rb, sat, 0, s) IN
              FindForwards(rb, sat, s) =
                  IF m = {} THEN NoIndex ELSE Maximum(m)
        /\ \A s \in 0..n :
              LET m == Satisfying(rb, sat, s, n - 1) IN
              /\ FindBackwards(rb, sat, s) =
                    IF m = {} THEN NoIndex ELSE Minimum(m)
              /\ FindBackwards(rb, sat, s) < n

\* C32, the case reached: the buffer is full and wrapped; a search toward
\* older entries from the newest index passes the others and finds the
\* oldest element, a search toward newer entries from the oldest index
\* finds the newest, and a search started at size() finds nothing although
\* the slot it reads holds a match.
C32_Witness ==
    /\ IsFull(rb) /\ rb.front # 0 /\ BufLen(rb) >= 3
    /\ \E v, w \in Values :
          /\ FindForwards(rb, {v}, Size(rb) - 1) = 0
          /\ FindBackwards(rb, {w}, 0) = Size(rb) - 1
          /\ FindBackwards(rb, {v}, Size(rb)) = NoIndex

\* The indices older than index whose entry of h starts with prefix.
OlderMatches(h, prefix, index) ==
    {i \in MatchingIndices(h, prefix) : i < index}

\* C33: up in HistorySearch{query, idx} moves to the nearest older index
\* whose entry starts with query, and leaves the state as it is if idx is 0
\* or no older entry starts with query; the editor stays in HistorySearch
\* with the same query, and the history is as it was.
C33_UpInSearch ==
    WasCalled("up", "HistorySearch") =>
        LET st    == in_op.state
            older == OlderMatches(in_op.history, st.search_term, st.index)
        IN  /\ in_state =
                  IF st.index = 0 \/ older = {} THEN st
                  ELSE HistorySearch(st.search_term, Maximum(older))
            /\ in_state.mode = "HistorySearch"
            /\ in_state.search_term = st.search_term
            /\ history = in_op.history

\* C33, the case reached: an older entry exists and does not start with
\* the query, and up has left the search where it was.
C33_Witness ==
    /\ WasCalled("up", "HistorySearch")
    /\ in_op.state.index > 0
    /\ in_op.state.search_term # ""
    /\ in_state = in_op.state

\* The text a search collapses to: the matched entry if the query is
\* empty, the query otherwise.
CollapsedText(st, h) ==
    IF st.search_term = "" THEN Get(h, st.index) ELSE st.search_term

\* The text without its last character.
WithoutLast(text) ==
    LET cs == CharsOf(text)
    IN  IF cs = <<>> THEN "" ELSE Collect(SubSeq(cs, 1, Len(cs) - 1))

\* C34: backspace, delete, left and home in HistorySearch{query, idx} act
\* on Typing{text, number of characters of text}, text being the matched
\* entry if query is empty and query otherwise: backspace removes the last
\* character, delete removes nothing, left moves the cursor one character
\* back and home moves it to 0.  The editor is then in Typing and the
\* history is as it was.
C34_EditsCollapseSearch ==
    (/\ in_op.state.mode = "HistorySearch"
     /\ in_op.name \in {"backspace", "delete", "left", "home"}) =>
        LET text == CollapsedText(in_op.state, in_op.history)
            n    == CharCount(text)
        IN  /\ in_state.mode = "Typing"
            /\ history = in_op.history
            /\ in_op.name = "backspace" =>
                  in_state = Typing(WithoutLast(text), IF n = 0 THEN 0 ELSE n - 1)
            /\ in_op.name = "delete" => in_state = Typing(text, n)
            /\ in_op.name = "left" =>
                  in_state = Typing(text, IF n = 0 THEN 0 ELSE n - 1)
            /\ in_op.name = "home" => in_state = Typing(text, 0)

\* C34, the case reached: backspace in a search with an empty query has
\* left the matched entry, of two characters, without its last one.
C34_Witness ==
    /\ WasCalled("backspace", "HistorySearch")
    /\ in_op.state.search_term = ""
    /\ CharCount(Get(in_op.history, in_op.state.index)) = 2
    /\ in_state = Typing(WithoutLast(Get(in_op.history, in_op.state.index)), 1)

\* The positions the properties try, one beyond the longest text included.
Positions == 0..(Maximum({Len(cs) : cs \in TypedChars}) + 1)

\* C35: in Typing{text, cursor} the cursor is at most the number of
\* characters of text; insert_string at a position beyond the text and
\* del_from_string at a position at or beyond its end return the text
\* unchanged; backspace with the cursor at 0 and delete with the cursor at
\* the end of the text leave the editor as it was.
C35_CursorWithinText ==
    /\ in_state.mode = "Typing" =>
          /\ in_state.cursor_position \in 0..CharCount(in_state.buffer)
          /\ in_state.buffer \in Typed
    /\ \A position \in Positions :
          /\ position > CharCount(in_state.buffer) =>
                \A what \in Typed :
                    InsertString(in_state.buffer, what, position)
                        = in_state.buffer
          /\ position >= CharCount(in_state.buffer) =>
                DelFromString(in_state.buffer, position) = in_state.buffer
    /\ (/\ WasCalled("backspace", "Typing")
        /\ in_op.state.cursor_position = 0) => in_state = in_op.state
    /\ (/\ WasCalled("delete", "Typing")
        /\ in_op.state.cursor_position = CharCount(in_op.state.buffer)) =>
          in_state = in_op.state

\* C35, the case reached: delete was called with the cursor at the end of
\* a text of two characters, one of them of two bytes, and has changed
\* nothing.
C35_Witness ==
    /\ WasCalled("delete", "Typing")
    /\ CharCount(in_op.state.buffer) = 2
    /\ StrLen(in_op.state.buffer) > 2
    /\ in_op.state.cursor_position = 2
    /\ in_state = in_op.state

\* C36: the cursor position the editor reports is a number of characters:
\* the cursor of Typing, and in HistorySearch the number of characters of
\* the matched entry if the query is empty and of the query otherwise,
\* also for a text with characters of more than one byte.
C36_CursorCountsCharacters ==
    CursorPosition(in_state, history) =
        IF in_state.mode = "Typing" THEN in_state.cursor_position
        ELSE CharCount(CollapsedText(in_state, history))

\* The slots of the Vec that hold a value.
Occupied(r) == {k \in 0..(BufLen(r) - 1) : Slot(r, k) # None}

\* C37: after any sequence of push_back and find_and_push_back on a buffer
\* of capacity 1 or more, size() is the number of the occupied slots, the
\* occupied slots are the logical indices 0..size()-1, is_full and
\* is_empty are not both true, front is 0 unless the buffer is full, and a
\* buffer that was full before the last call is full after it.
C37_RingShape ==
    /\ BufLen(rb) >= 1
    /\ Size(rb) = Cardinality(Occupied(rb))
    /\ \A i \in 0..(BufLen(rb) - 1) : (Get(rb, i) # None) <=> (i < Size(rb))
    /\ ~(IsFull(rb) /\ IsEmpty(rb))
    /\ rb.front # 0 => IsFull(rb)
    /\ IsFull(rb_pre) => IsFull(rb)

\* C37, the case reached: find_and_push_back was called on a full buffer
\* whose front was not 0, and the buffer is full still.
C37_Witness ==
    /\ CalledFindAndPushBack
    /\ IsFull(rb_pre) /\ rb_pre.front # 0
    /\ BufLen(rb) >= 2
    /\ rb # rb_pre
    /\ IsFull(rb)
    /\ Size(rb) = Cardinality(Occupied(rb))

\* The steps of the automation actor and of its senders with the order of
\* its two queues recorded: ord.sent holds, in the order of their sending,
\* the Output requests queued on req_rx and the Expect events queued on
\* i_rx, and ord.taken those the select! loop has handled, in the order of
\* their handling.
ScriptRequestSentRecorded ==
    /\ ScriptRequestSent
    /\ IF sc_req_rx'[Len(sc_req_rx')].type = "Output"
       THEN /\ Len(ord.sent) < MaxQueued
            /\ ord' = [ord EXCEPT !.sent = Append(@, "Output")]
       ELSE UNCHANGED ord

ScriptCallsExpectRecorded ==
    /\ ScriptCallsExpect
    /\ IF sc_state = "running"
       THEN /\ Len(ord.sent) < MaxQueued
            /\ ord' = [ord EXCEPT !.sent = Append(@, "Expect")]
       ELSE UNCHANGED ord

HandleOutputRecorded ==
    /\ HandleOutput
    /\ ord' = [ord EXCEPT !.taken = Append(@, "Output")]

HandleScriptEventRecorded ==
    /\ HandleScriptEvent
    /\ ord' = [ord EXCEPT !.taken = Append(@, "Expect")]

\* The number of the entries of the log equal to kind.
CountOf(log, kind) == Cardinality({i \in 1..Len(log) : log[i] = kind})

\* The position in the log of the k-th entry equal to kind.
PositionOf(log, kind, k) ==
    CHOOSE i \in 1..Len(log) :
        log[i] = kind /\ CountOf(SubSeq(log, 1, i), kind) = k

\* The Expect events queued before the Output request that the actor
\* handled as its step p.  Each queue is taken in the order of its sends.
ExpectsQueuedBefore(p) ==
    LET k == CountOf(SubSeq(ord.taken, 1, p), "Output")
        s == PositionOf(ord.sent, "Output", k)
    IN  CountOf(SubSeq(ord.sent, 1, s - 1), "Expect")

\* C38: an Expect event queued on i_rx before an Output request is queued
\* on req_rx is handled, and its waiter registered, before the actor
\* matches that Output.
C38_ExpectRegisteredFirst ==
    \A p \in 1..Len(ord.taken) :
        ord.taken[p] = "Output" =>
            ExpectsQueuedBefore(p)
                <= CountOf(SubSeq(ord.taken, 1, p - 1), "Expect")

\* C39: every entry of the history of the editor is a string that is not
\* empty, no two entries are equal, and an operation other than
\* get_and_submit leaves the history as it was, slots, front and back.
C39_HistoryEntries ==
    /\ \A i \in 0..(Size(history) - 1) :
          /\ Get(history, i) \in Typed \ {""}
          /\ Copies(history, Get(history, i)) = 1
    /\ in_op.name \notin {"new", "get_and_submit"} => history = in_op.history

\* C39, the case reached: an empty line was submitted to an editor whose
\* history was full, and the history holds what it held.
C39_Witness ==
    /\ WasCalled("get_and_submit", "Typing")
    /\ in_op.state.buffer = ""
    /\ IsFull(in_op.history)
    /\ history = in_op.history
    /\ \A i \in 0..(Size(history) - 1) : Get(history, i) # ""

\* handle_request has ended on a Send request taken with a socket, whose
\* first write has failed: the newline was not written.
WriteFailedDone ==
    /\ SendDone
    /\ t_last.sock = "open"
    /\ t_last.io = << Msg("write", t_last.req.data) >>

\* C40: a failure to write to the socket while a Send request is handled
\* in Connected yields exactly one Error event and no Warning, leaves the
\* socket in place and the loop running, so that the later iterations read
\* from and write to the same socket; the socket is dropped by
\* handle_telnet_recv only.
C40_WriteFailureKeepsConnection ==
    /\ WriteFailedDone =>
          /\ Types(t_last.emitted) = << "Error" >>
          /\ t_sock = "open"
          /\ t_state = "running"
    /\ (t_ops # <<>> /\ Head(t_ops) = SetSock("none")) => t_last.kind = "recv"

-----------------------------------------------------------------------------
\* In the specification of one component the others stay as created.
RingIdle ==
    /\ rb = New(1) /\ rb_pre = New(1)
    /\ rb_op = NoOp /\ pushed = <<>> /\ onlyPush = TRUE

\* The fields of the actors that the router does not see.
ScriptRest ==
    /\ sc_state = "running"
    /\ sc_i_rx = <<>> /\ sc_ev_rx = <<>> /\ expects = <<>>
    /\ th = [t \in Threads |-> NewThread]
    /\ sc_last = NoRequest

RouterIdle ==
    /\ InitRouter
    /\ t_req_rx = <<>>
    /\ sc_req_rx = <<>>

NextRing ==
    \/ RingPushBack /\ UNCHANGED <<scriptVars, telnetVars, tuiVars, layoutVars, routerVars, orderVars, inputVars>>
    \/ RingFindAndPushBack /\ UNCHANGED <<scriptVars, telnetVars, tuiVars, layoutVars, routerVars, orderVars, inputVars>>

InitSpecRing == InitRing /\ ScriptRest /\ InitTelnet /\ RouterIdle /\ InitLayout /\ InitInput

SpecRing == InitSpecRing /\ [][NextRing]_vars

NextScript ==
    \/ ScriptRequestSent /\ UNCHANGED <<ringVars, telnetVars, tuiVars, layoutVars, routerVars, orderVars, inputVars>>
    \/ ScriptEventTaken /\ UNCHANGED <<ringVars, telnetVars, tuiVars, layoutVars, routerVars, orderVars, inputVars>>
    \/ HandleOutput /\ UNCHANGED <<ringVars, telnetVars, tuiVars, layoutVars, routerVars, orderVars, inputVars>>
    \/ HandleExecuteScriptFile /\ UNCHANGED <<ringVars, telnetVars, tuiVars, layoutVars, routerVars, orderVars, inputVars>>
    \/ HandleShutdown /\ UNCHANGED <<ringVars, telnetVars, tuiVars, layoutVars, routerVars, orderVars, inputVars>>
    \/ HandleScriptEvent /\ UNCHANGED <<ringVars, telnetVars, tuiVars, layoutVars, routerVars, orderVars, inputVars>>
    \/ ScriptCallsExpect /\ UNCHANGED <<ringVars, telnetVars, tuiVars, layoutVars, routerVars, orderVars, inputVars>>
    \/ ScriptResumes /\ UNCHANGED <<ringVars, telnetVars, tuiVars, layoutVars, routerVars, orderVars, inputVars>>
    \/ ScriptEnds /\ UNCHANGED <<ringVars, telnetVars, tuiVars, layoutVars, routerVars, orderVars, inputVars>>
    \/ ScriptFails /\ UNCHANGED <<ringVars, telnetVars, tuiVars, layoutVars, routerVars, orderVars, inputVars>>

InitSpecScript ==
    RingIdle /\ InitScript /\ InitTelnet /\ RouterIdle /\ InitLayout /\ InitInput

SpecScript == InitSpecScript /\ [][NextScript]_vars

NextRouter ==
    \/ RouteTelnetEvent /\ UNCHANGED <<t_state, sc_state>> /\ RouterFrame
    \/ RouteTuiEvent /\ UNCHANGED <<t_state, sc_state>> /\ RouterFrame
    \/ RouteScriptEvent /\ UNCHANGED <<t_state, sc_state>> /\ RouterFrame
    \/ RouterSend /\ UNCHANGED <<t_state, sc_state>> /\ RouterFrame
    \/ TelnetPeerTakes /\ RouterFrame
    \/ ScriptPeerTakes /\ RouterFrame
    \/ TuiPeerTakes /\ RouterFrame
    \/ TuiCloses /\ RouterFrame

\* What no action of the connection actor's specification changes.
TelnetFrame ==
    UNCHANGED <<ringVars, scriptVars, tuiVars, layoutVars, orderVars, inputVars,
                r_cur, r_out, r_ret, r_sent, r_count>>

NextTelnet ==
    \/ TelnetRecv /\ UNCHANGED r_pc /\ TelnetFrame
    \/ TelnetHandleRequest /\ UNCHANGED r_pc /\ TelnetFrame
    \/ TelnetStep /\ UNCHANGED r_pc /\ TelnetFrame
    \/ RouterSendsRequest /\ TelnetFrame
    \/ RouterTakesTelnetEvent /\ TelnetFrame
    \/ RouterSendsShutdown /\ TelnetFrame
    \/ RouterExits /\ TelnetFrame

InitSpecTelnet ==
    /\ RingIdle /\ ScriptRest /\ InitTelnet /\ InitRouter /\ InitLayout /\ InitInput
    /\ sc_req_rx = <<>>

SpecTelnet == InitSpecTelnet /\ [][NextTelnet]_vars

\* The actor's thread is scheduled: whichever step of its loop is possible
\* is eventually taken (a socket read returns within its timeout).
TelnetRuns ==
    /\ TelnetRecv \/ TelnetHandleRequest \/ TelnetStep
    /\ UNCHANGED r_pc
    /\ TelnetFrame

\* The router, once in its quit handler, completes it and ends its task.
RouterCompletesQuit == r_pc = "sending" /\ RouterExits /\ TelnetFrame

SpecTelnetFair ==
    SpecTelnet /\ WF_vars(TelnetRuns) /\ WF_vars(RouterCompletesQuit)

InitSpecRouter ==
    RingIdle /\ ScriptRest /\ InitTelnet /\ InitRouter /\ InitLayout /\ InitInput

\* What no action of the layout specification changes.
LayoutFrame ==
    UNCHANGED <<ringVars, telnetVars, routerVars, tui_state, orderVars, inputVars,
                sc_state, sc_req_rx, sc_i_rx, expects, th, sc_last>>

NextLayout ==
    \/ ScriptCallsSetLayout /\ LayoutFrame
    \/ RouterForwardsSetLayout /\ LayoutFrame
    \/ TuiProcessRequest /\ LayoutFrame

InitSpecLayout ==
    /\ RingIdle /\ ScriptRest /\ InitTelnet /\ RouterIdle /\ InitLayout /\ InitInput
    /\ th[1].st = "none"

SpecLayout == InitSpecLayout /\ [][NextLayout]_vars

\* What the router leaves alone when it runs with the connection actor.
WaitFrame ==
    UNCHANGED <<ringVars, sc_i_rx, sc_ev_rx, expects, th, sc_last, layoutVars,
                orderVars, inputVars,
                t_state, sc_state, t_pc, t_sock, t_ops, t_last>>

\* The router and the connection actor together; the presentation and
\* automation tasks take the requests sent to them.
NextWait ==
    \/ RouterReceivesTelnetEvent /\ WaitFrame
    \/ RouteTuiEvent /\ UNCHANGED t_ev_rx /\ WaitFrame
    \/ RouteScriptEvent /\ UNCHANGED t_ev_rx /\ WaitFrame
    \/ RouterSend /\ UNCHANGED t_ev_rx /\ WaitFrame
    \/ TelnetRecv /\ UNCHANGED r_pc /\ TelnetFrame
    \/ TelnetHandleRequest /\ UNCHANGED r_pc /\ TelnetFrame
    \/ TelnetStep /\ UNCHANGED r_pc /\ TelnetFrame
    \/ ScriptPeerTakes /\ RouterFrame
    \/ TuiPeerTakes /\ RouterFrame

InitSpecWait ==
    RingIdle /\ ScriptRest /\ InitTelnet /\ RouterIdle /\ InitLayout /\ InitInput

SpecWait == InitSpecWait /\ [][NextWait]_vars

\* What the steps of the router, the connection actor and the presentation
\* task leave alone when their messages are recorded.  The requests to the
\* connection actor are those of the command line and of the user.
OrderFrame ==
    UNCHANGED <<ringVars, sc_i_rx, sc_ev_rx, expects, th, sc_last, lay_call,
                inputVars>>

RouterOnly ==
    UNCHANGED <<t_state, sc_state, t_pc, t_sock, t_ops, t_last, tui_layout>>

NextOrder ==
    \/ RouterReceivesTelnetEvent /\ RouterOnly /\ UNCHANGED ord /\ OrderFrame
    \/ RouteTuiEvent /\ RouterOnly /\ UNCHANGED <<t_ev_rx, ord>> /\ OrderFrame
    \/ RouterSendRecorded /\ RouterOnly /\ UNCHANGED t_ev_rx /\ OrderFrame
    \/ /\ TelnetRecv
       /\ UNCHANGED <<routerVars, tuiVars, tui_layout, sc_state, sc_req_rx, ord>>
       /\ OrderFrame
    \/ /\ TelnetHandleRequestRecorded
       /\ UNCHANGED <<routerVars, tuiVars, tui_layout, sc_state, sc_req_rx>>
       /\ OrderFrame
    \/ /\ TelnetStepRecorded
       /\ UNCHANGED <<routerVars, tuiVars, tui_layout, sc_state, sc_req_rx>>
       /\ OrderFrame
    \/ /\ ScriptPeerTakes
       /\ UNCHANGED <<t_pc, t_sock, t_ev_rx, t_ops, t_last, tui_layout, ord>>
       /\ OrderFrame
    \/ /\ TuiProcessRequestRecorded
       /\ UNCHANGED <<routerVars, telnetVars, tui_state, sc_state, sc_req_rx>>
       /\ OrderFrame

InitSpecOrder ==
    RingIdle /\ ScriptRest /\ InitTelnet /\ InitRouter /\ InitLayout /\ InitInput

SpecOrder == InitSpecOrder /\ [][NextOrder]_vars

\* What no operation of the line editor changes.
InputFrame ==
    UNCHANGED <<ringVars, scriptVars, telnetVars, tuiVars, layoutVars,
                routerVars, orderVars>>

NextInput ==
    \/ InputGetAndSubmit /\ InputFrame
    \/ InputGetAndClear /\ InputFrame
    \/ InputTypeString /\ InputFrame
    \/ InputLeft /\ InputFrame
    \/ InputRight /\ InputFrame
    \/ InputHome /\ InputFrame
    \/ InputEnd /\ InputFrame
    \/ InputBackspace /\ InputFrame
    \/ InputDelete /\ InputFrame
    \/ InputUp /\ InputFrame
    \/ InputDown /\ InputFrame
    \/ InputCancel /\ InputFrame

InitSpecInput ==
    RingIdle /\ ScriptRest /\ InitTelnet /\ RouterIdle /\ InitLayout /\ InitInput

SpecInput == InitSpecInput /\ [][NextInput]_vars

SpecRouter == InitSpecRouter /\ [][NextRouter]_vars

\* The automation actor with the order of its two queues recorded: the
\* steps of the actor, of the scripts and of the router as its peer.
ExpectFrame ==
    UNCHANGED <<ringVars, telnetVars, tuiVars, layoutVars, routerVars, inputVars>>

NextExpect ==
    \/ ScriptRequestSentRecorded /\ ExpectFrame
    \/ ScriptCallsExpectRecorded /\ ExpectFrame
    \/ HandleOutputRecorded /\ ExpectFrame
    \/ HandleScriptEventRecorded /\ ExpectFrame
    \/ HandleExecuteScriptFile /\ UNCHANGED ord /\ ExpectFrame
    \/ HandleShutdown /\ UNCHANGED ord /\ ExpectFrame
    \/ ScriptEventTaken /\ UNCHANGED ord /\ ExpectFrame
    \/ ScriptResumes /\ UNCHANGED ord /\ ExpectFrame
    \/ ScriptEnds /\ UNCHANGED ord /\ ExpectFrame
    \/ ScriptFails /\ UNCHANGED ord /\ ExpectFrame

InitSpecExpect ==
    RingIdle /\ InitScript /\ InitTelnet /\ RouterIdle /\ InitLayout /\ InitInput

SpecExpect == InitSpecExpect /\ [][NextExpect]_vars

=============================================================================
